---- MODULE Spec2Model ----
(***************************************************************************)
(* Probabilistic stream-analytics structures of go-for-gophers-code:       *)
(* the Bloom filter and the Count-Min Sketch of chapter09/bloomfilter.go,  *)
(* and the LogAnalyzer that composes them with HyperLogLog, MinHash and    *)
(* LSH.  Each structure has its own specification over the shared          *)
(* variables; the variables a specification does not use stay at their     *)
(* idle values.                                                            *)
(***************************************************************************)
EXTENDS Integers, Sequences, FiniteSets, TLC

VARIABLES
    murmur,      \* murmur3.Sum64WithSeed as a fixed function <<data, seed>> -> uint64
    bf,          \* BloomFilter{bitset, size, k}
    bfAdded,     \* history: every item passed to BloomFilter.Add so far
    bfLast,      \* history: the last BloomFilter call and what it returned
    cms,         \* CountMinSketch{matrix, width, depth}
    cmsTrue,     \* history: per item, the exact total of the counts added (unbounded)
    cmsLast,     \* history: the last CountMinSketch call, its argument and the matrix before it
    cmsOps,      \* number of Increment calls made
    hllHash,     \* the cardinality estimator's hash as a fixed function data -> bits
    mhHash,      \* the signature generator's hashes as a fixed function <<data, i>> -> uint32
    la,          \* LogAnalyzer{deduper, pathCounter, userCounter, sessionCounter,
                 \*             errorMinhash, errorLSH, errorMessages, nextErrorID}
    laLog,       \* history: the ProcessLogEntry calls so far, each with its outcome
    laTop,       \* history: the last GetTopPaths call and its result
    laSimilar,   \* history: the last FindSimilarErrors call and its result
    writer,      \* per goroutine in ProcessLogEntry: its position and its locals
    reader,      \* the goroutine in FindSimilarErrors: its position and its locals
    fatal,       \* the runtime stopped the program (concurrent map access)
    mh,          \* MinHash{numHashes, seeds} of the document-similarity program
    mhLast,      \* history: the last MinHash call, its arguments and its result
    ds,          \* DocumentSet{docs, minHash, lsh, nextID}
    dsLast,      \* history: the last DocumentSet or LSH call and its result
    scan,        \* main of the log analysis: the lines of the file, the scanner's
                 \* position and the counters linesProcessed and errorLogs
    hll,         \* two cardinality estimators {precision, registers}
    hllLast,     \* history: the last estimator call, its arguments and its result
    ttl,         \* TTLCache{items} and the clock
    ttlLast,     \* history: the last TTLCache call and its result
    lru,         \* LRUCache{cap, list, data}
    lruLast,     \* history: the last LRUCache call, its result and the cache before it
    db,          \* the kv table of LRUSQLiteBackend's database
    bk,          \* per goroutine calling LRUSQLiteBackend: its call and its position
    wgx,         \* the WaitGroup example: channel, counter, workers and main
    pool,        \* runPool: jobs channel, WaitGroup, workers and the caller
    fan,         \* fanOutFanIn: both channels, WaitGroup and the goroutines
    mbox,        \* mailbox: input channel, buffer, timer, context and the flushes
    mon,         \* heartbeat monitor: context, heartbeat channel, monitor and main
    sl,          \* SkipList{head, level}, its nodes and their forward pointers
    slLast       \* history: the last SkipList call, its result and the map it leaves

hashVars  == <<murmur, hllHash, mhHash>>
bloomVars == <<bf, bfAdded, bfLast>>
cmsVars   == <<cms, cmsTrue, cmsLast, cmsOps>>
laVars    == <<la, laLog, laTop, laSimilar>>
concVars  == <<writer, reader, fatal>>
mhVars    == <<mh, mhLast>>
dsVars    == <<ds, dsLast>>
hllVars   == <<hll, hllLast>>
ttlVars   == <<ttl, ttlLast>>
lruVars   == <<lru, lruLast>>
progVars  == <<db, bk, wgx, pool, fan, mbox, mon, sl, slLast>>
vars      == <<hashVars, bloomVars, cmsVars, laVars, concVars, mhVars, dsVars,
               scan, hllVars, ttlVars, lruVars, progVars>>

\* what the operations of one structure leave alone
notBloom == <<cmsVars, laVars, concVars, mhVars, dsVars, scan, hllVars, ttlVars, lruVars, progVars>>
notCMS   == <<bloomVars, laVars, concVars, mhVars, dsVars, scan, hllVars, ttlVars, lruVars, progVars>>
notLA    == <<bloomVars, cmsVars, concVars, mhVars, dsVars, scan, hllVars, ttlVars, lruVars, progVars>>
notConc  == <<bloomVars, cmsVars, laLog, laTop, laSimilar, mhVars, dsVars, scan, hllVars, ttlVars, lruVars, progVars>>
notMH    == <<bloomVars, cmsVars, laVars, concVars, dsVars, scan, hllVars, ttlVars, lruVars, progVars>>
notDS    == <<bloomVars, cmsVars, laVars, concVars, mhVars, scan, hllVars, ttlVars, lruVars, progVars>>
notMain  == <<bloomVars, cmsVars, laTop, laSimilar, concVars, mhVars, dsVars,
              hllVars, ttlVars, lruVars, progVars>>
notHLL   == <<bloomVars, cmsVars, laVars, concVars, mhVars, dsVars, scan, ttlVars, lruVars, progVars>>
notTTL   == <<bloomVars, cmsVars, laVars, concVars, mhVars, dsVars, scan, hllVars, lruVars, progVars>>
notLRU   == <<bloomVars, cmsVars, laVars, concVars, mhVars, dsVars, scan, hllVars, ttlVars, progVars>>

(***************************************************************************)
(* Bounds of the model.                                                    *)
(***************************************************************************)
NumItems == 2      \* distinct byte strings offered to a structure
MaxIncr  == 3      \* Increment calls in one behaviour of the sketch
MaxRecords == 3    \* ProcessLogEntry calls in one behaviour of the analyzer
MaxEstimate == 2   \* largest counter of the path sketch GetTopPaths is applied to

ItemNames == <<"go", "rust", "zig", "c">>
Items     == {ItemNames[i] : i \in 1..NumItems}

\* Representative 64-bit hash values: 65 falls in the second bitset word of a
\* 73-bit filter, 74 = 1 (mod 73) collides with 1 there.
HashVals == {0, 1, 65, 74}

None == "none"

\* the value of a history variable before any call was made
NoCall == [op |-> "none", data |-> "", result |-> FALSE]

(***************************************************************************)
(* Fixed-point helpers for the float formulas of the constructors.         *)
(* Probabilities are given in 1/1000; logarithms in 1/10000.               *)
(***************************************************************************)
\* -ln(pm/1000) * 10^4, for the probabilities the model draws from
NegLnE4(pm) ==
    CASE pm = 1000 -> 0
      [] pm = 500 -> 6931
      [] pm = 250 -> 13863
      [] pm = 200 -> 16094
      [] pm = 100 -> 23026

Ln2E4   == 6931    \* math.Log(2) * 10^4
Ln2SqE4 == 4805    \* math.Pow(math.Log(2), 2) * 10^4

CeilDiv(a, b) == (a + b - 1) \div b

Max(a, b) == IF a >= b THEN a ELSE b

(***************************************************************************)
(* BloomFilter (chapter09/bloomfilter.go).  A uint64 word of the bitset is *)
(* the set of its one-bits, so  w |= 1<<bit  is  w \cup {bit}.             *)
(***************************************************************************)
\* optimalBitSize: ceil(-n * ln(p) / ln(2)^2)
optimalBitSize(n, pm) == CeilDiv(n * NegLnE4(pm), Ln2SqE4)

\* optimalHashCount: max(1, round(size/n * ln 2))
optimalHashCount(size, n) ==
    Max(1, (2 * size * Ln2E4 + n * 10000) \div (2 * n * 10000))

NewBloomFilter(expectedElements, pm) ==
    LET size       == optimalBitSize(expectedElements, pm)
        k          == optimalHashCount(size, expectedElements)
        bitsetSize == (size + 63) \div 64
    IN  [bitset |-> [w \in 0..(bitsetSize - 1) |-> {}], size |-> size, k |-> k]

\* getPosition: murmur3.Sum64WithSeed(data, uint32(hashNum)) % size
bfGetPosition(f, data, hashNum) == murmur[<<data, hashNum>>] % f.size

\* an iteration that assigns the bit to the word instead of or-ing it in
bfSetBitAssign(f, bitset, data, i) ==
    LET position == bfGetPosition(f, data, i)
        index    == position \div 64
        bit      == position % 64
    IN  [bitset EXCEPT ![index] = {bit}]

\* one iteration of the loop of Add: bitset[position/64] |= 1 << (position%64)
bfSetBit(f, bitset, data, i) ==
    LET position == bfGetPosition(f, data, i)
        index    == position \div 64
        bit      == position % 64
    IN  [bitset EXCEPT ![index] = @ \cup {bit}]

RECURSIVE bfAddLoop(_, _, _, _)
bfAddLoop(f, bitset, data, i) ==
    IF i < f.k THEN bfAddLoop(f, bfSetBit(f, bitset, data, i), data, i + 1)
    ELSE bitset

\* a loop that stops one hash function early
bfAddShort(f, data) == [f EXCEPT !.bitset = bfAddLoop([f EXCEPT !.k = f.k - 1], f.bitset, data, 0)]

\* BloomFilter.Add
bfAdd(f, data) == [f EXCEPT !.bitset = bfAddLoop(f, f.bitset, data, 0)]

\* BloomFilter.Contains
bfContains(f, data) ==
    \A i \in 0..(f.k - 1) :
        LET position == bfGetPosition(f, data, i)
            index    == position \div 64
            bit      == position % 64
        IN  bit \in f.bitset[index]

\* (expectedElements, falsePositiveRate in 1/1000) the filter is built with
BFConfigs == {<<1, 250>>, <<2, 500>>, <<50, 500>>}

BloomInit ==
    /\ \E c \in BFConfigs : bf = NewBloomFilter(c[1], c[2])
    /\ murmur \in [Items \X (0..(bf.k - 1)) -> HashVals]
    /\ bfAdded = {}
    /\ bfLast = NoCall
    /\ cms = None /\ cmsTrue = None /\ cmsLast = NoCall /\ cmsOps = 0
    /\ hllHash = None /\ mhHash = None
    /\ la = None /\ laLog = << >> /\ laTop = None /\ laSimilar = None
    /\ writer = None /\ reader = None /\ fatal = FALSE
    /\ mh = None /\ mhLast = None
    /\ ds = None /\ dsLast = None
    /\ scan = None /\ hll = None /\ hllLast = None
    /\ ttl = None /\ ttlLast = None /\ lru = None /\ lruLast = None
    /\ db = None /\ bk = None /\ wgx = None /\ pool = None /\ fan = None
    /\ mbox = None /\ mon = None /\ sl = None /\ slLast = None

BFAdd ==
    \E data \in Items :
        /\ bf' = bfAdd(bf, data)
        /\ bfAdded' = bfAdded \cup {data}
        /\ bfLast' = [op |-> "Add", data |-> data, result |-> TRUE]
        /\ UNCHANGED <<hashVars, notBloom>>

BFContains ==
    \E data \in Items :
        /\ bfLast' = [op |-> "Contains", data |-> data, result |-> bfContains(bf, data)]
        /\ UNCHANGED <<bf, bfAdded, hashVars, notBloom>>

BloomNext == BFAdd \/ BFContains

SpecBloom == BloomInit /\ [][BloomNext]_vars

(***************************************************************************)
(* uint32 arithmetic.  A uint32 is kept as its two 16-bit halves, so that  *)
(* the full 32-bit width is modelled: + wraps modulo 2^32 as in Go.        *)
(***************************************************************************)
Half == 65536

U32(hi, lo) == [hi |-> hi, lo |-> lo]

ZeroU32   == U32(0, 0)
OneU32    == U32(0, 1)
MaxUint32 == U32(Half - 1, Half - 1)     \* math.MaxUint32

\* a + b on uint32 (wraps)
AddU32(a, b) ==
    LET lo == a.lo + b.lo
        hi == a.hi + b.hi + (lo \div Half)
    IN  U32(hi % Half, lo % Half)

LessU32(a, b) == a.hi < b.hi \/ (a.hi = b.hi /\ a.lo < b.lo)

\* a + b on unbounded naturals kept as (hi, lo): hi is not reduced
AddNat(a, b) ==
    LET lo == a.lo + b.lo
    IN  U32(a.hi + b.hi + (lo \div Half), lo % Half)

\* a + b capped at math.MaxUint32
SatAddU32(a, b) ==
    LET s == AddNat(a, b) IN IF s.hi >= Half THEN MaxUint32 ELSE s

(***************************************************************************)
(* CountMinSketch (chapter09/bloomfilter.go).                              *)
(***************************************************************************)
EE5 == 271828    \* math.E * 10^5

\* width = ceil(e / epsilon), depth = ceil(ln(1 / delta))
NewCountMinSketch(epsPm, deltaPm) ==
    LET width == CeilDiv(EE5, epsPm * 100)
        depth == CeilDiv(NegLnE4(deltaPm), 10000)
    IN  [matrix |-> [i \in 0..(depth - 1) |-> [j \in 0..(width - 1) |-> ZeroU32]],
         width  |-> width,
         depth  |-> depth]

\* getPosition: murmur3.Sum64WithSeed(data, uint32(hashNum)) % width
cmsGetPosition(s, data, hashNum) == murmur[<<data, hashNum>>] % s.width

\* one iteration of the loop of Increment: matrix[i][position] += count
cmsBump(s, matrix, data, count, i) ==
    LET position == cmsGetPosition(s, data, i)
    IN  [matrix EXCEPT ![i][position] = AddU32(@, count)]

RECURSIVE cmsIncrLoop(_, _, _, _, _)
cmsIncrLoop(s, matrix, data, count, i) ==
    IF i < s.depth THEN cmsIncrLoop(s, cmsBump(s, matrix, data, count, i), data, count, i + 1)
    ELSE matrix

\* CountMinSketch.Increment
cmsIncrement(s, data, count) ==
    [s EXCEPT !.matrix = cmsIncrLoop(s, s.matrix, data, count, 0)]

RECURSIVE cmsCountLoop(_, _, _, _)
cmsCountLoop(s, data, min, i) ==
    IF i < s.depth
    THEN LET position == cmsGetPosition(s, data, i)
             cell     == s.matrix[i][position]
         IN  cmsCountLoop(s, data, IF LessU32(cell, min) THEN cell ELSE min, i + 1)
    ELSE min

\* CountMinSketch.Count
cmsCount(s, data) == cmsCountLoop(s, data, MaxUint32, 0)

\* (epsilon, delta), both in 1/1000, the sketch is built with
CMSConfigs == {<<950, 500>>, <<900, 200>>}

\* the counts offered to Increment
CountVals == {OneU32, U32(Half \div 2, 0), MaxUint32}

CMSInit ==
    /\ \E c \in CMSConfigs : cms = NewCountMinSketch(c[1], c[2])
    /\ murmur \in [Items \X (0..(cms.depth - 1)) -> HashVals]
    /\ cmsTrue = [x \in Items |-> ZeroU32]
    /\ cmsLast = [op |-> "none", data |-> "", count |-> ZeroU32,
                  before |-> cms, result |-> ZeroU32]
    /\ cmsOps = 0
    /\ bf = None /\ bfAdded = {} /\ bfLast = NoCall
    /\ hllHash = None /\ mhHash = None
    /\ la = None /\ laLog = << >> /\ laTop = None /\ laSimilar = None
    /\ writer = None /\ reader = None /\ fatal = FALSE
    /\ mh = None /\ mhLast = None
    /\ ds = None /\ dsLast = None
    /\ scan = None /\ hll = None /\ hllLast = None
    /\ ttl = None /\ ttlLast = None /\ lru = None /\ lruLast = None
    /\ db = None /\ bk = None /\ wgx = None /\ pool = None /\ fan = None
    /\ mbox = None /\ mon = None /\ sl = None /\ slLast = None

CMSIncrement ==
    \E data \in Items, count \in CountVals :
        /\ cmsOps < MaxIncr
        /\ cms' = cmsIncrement(cms, data, count)
        /\ cmsTrue' = [cmsTrue EXCEPT ![data] = AddNat(@, count)]
        /\ cmsLast' = [op |-> "Increment", data |-> data, count |-> count,
                       before |-> cms, result |-> ZeroU32]
        /\ cmsOps' = cmsOps + 1
        /\ UNCHANGED <<hashVars, notCMS>>

CMSCount ==
    \E data \in Items :
        /\ cmsLast' = [op |-> "Count", data |-> data, count |-> ZeroU32,
                       before |-> cms, result |-> cmsCount(cms, data)]
        /\ UNCHANGED <<cms, cmsTrue, cmsOps, hashVars, notCMS>>

CMSNext == CMSIncrement \/ CMSCount

SpecCMS == CMSInit /\ [][CMSNext]_vars

\* Count(x) is at least the exact total t (t unbounded)
AtLeastTotal(c, t) == c.hi > t.hi \/ (c.hi = t.hi /\ c.lo >= t.lo)

\* C2: for every sequence of Increment calls and every item x, Count(x) is
\* greater than or equal to the true total of the counts added for x.
C2_NeverUnderestimates ==
    \A x \in Items : AtLeastTotal(cmsCount(cms, x), cmsTrue[x])

\* C3: Increment is saturating: every counter it touches becomes
\* min(old + count, math.MaxUint32); it never wraps around to a smaller value.
C3_SaturatingAdd ==
    cmsLast.op = "Increment" =>
        \A i \in 0..(cms.depth - 1) :
            LET position == cmsGetPosition(cms, cmsLast.data, i)
            IN  cms.matrix[i][position]
                  = SatAddU32(cmsLast.before.matrix[i][position], cmsLast.count)

\* C4: for every item x, Count(x) never decreases from one state to the next,
\* whatever Increment call (for x or for another item) happens in between.
C4_CountMonotone ==
    [][\A x \in Items : ~LessU32(cmsCount(cms', x), cmsCount(cms, x))]_vars

(***************************************************************************)
(* LogAnalyzer (the log-analysis program).  Its five structures come from  *)
(* packages ourpackage/{bloomfilter,cms,hyperloglog,minhash,lsh}, which    *)
(* the repository does not hold: Test and Add of the dedup filter are the  *)
(* chapter09 BloomFilter, the others follow the specification (sections    *)
(* 4.3 to 4.6).  NewLogAnalyzer's sizes (1M elements at 1%, 10000 x 5,     *)
(* 2^14 registers, 100 = 20 x 5 hashes) are scaled down in LAConfig.       *)
(***************************************************************************)
LAConfig ==
    [expected  |-> 2, ratePm |-> 500,       \* bloomfilter.New(1000000, 0.01)
     width     |-> 2, depth  |-> 1,         \* cms.New(10000, 5)
     precision |-> 1,                       \* hyperloglog.New(14)
     numHashes |-> 2,                       \* minhash.New(100)
     bands     |-> 2, rows   |-> 1]         \* lsh.New(100, 20, 5)

Digits == <<"0", "1", "2", "3", "4", "5", "6", "7", "8", "9">>

\* fmt.Sprintf("%d", n)
RECURSIVE FormatInt(_)
FormatInt(n) ==
    IF n < 0 THEN "-" \o FormatInt(0 - n)
    ELSE IF n < 10 THEN Digits[n + 1]
    ELSE FormatInt(n \div 10) \o Digits[(n % 10) + 1]

\* Timestamp.Format(time.RFC3339) of a time of 2023-04-15, 10:20 UTC, given
\* by its second and nanosecond: the fraction of a second is not printed
FormatRFC3339(t) ==
    "2023-04-15T10:20:" \o (IF t.sec < 10 THEN "0" ELSE "") \o FormatInt(t.sec) \o "Z"

\* a dedup key that takes the session id in as well
entryKeyWithSession(entry) ==
    FormatRFC3339(entry.Timestamp) \o "-" \o entry.IP \o "-" \o entry.UserID
        \o "-" \o entry.SessionID \o "-" \o entry.Path \o "-" \o FormatInt(entry.Status)

\* the dedup key of ProcessLogEntry: Sprintf("%s-%s-%s-%s-%d", ...)
entryKey(entry) ==
    FormatRFC3339(entry.Timestamp) \o "-" \o entry.IP \o "-" \o entry.UserID
        \o "-" \o entry.Path \o "-" \o FormatInt(entry.Status)

LogEntry(sec, ip, user, session, path, status, message) ==
    [Timestamp |-> [sec |-> sec, nsec |-> 0], IP |-> ip, UserID |-> user,
     SessionID |-> session, Path |-> path, Status |-> status, Message |-> message]

\* the records offered to ProcessLogEntry: the second differs from the first
\* in session id and message only; the third and the fourth are errors
LogEntries ==
    {LogEntry(30, "10.0.0.1", "u1", "s1", "/a", 200, "ok"),
     LogEntry(30, "10.0.0.1", "u1", "s2", "/a", 200, "fine"),
     LogEntry(30, "10.0.0.1", "u2", "s1", "/a", 500, "timeout"),
     LogEntry(30, "10.0.0.1", "u1", "s2", "/b", 500, "refused")}

LAKeys     == {entryKey(e) : e \in LogEntries}
LAPaths    == {e.Path : e \in LogEntries} \cup {"/c"}
LAUsers    == {e.UserID : e \in LogEntries}
LASessions == {e.SessionID : e \in LogEntries}
LAMessages == {e.Message : e \in {x \in LogEntries : x.Status >= 400}}

\* bloomfilter.BloomFilter.Test
deduperTest(f, data) == bfContains(f, data)

\* bloomfilter.BloomFilter.Add
deduperAdd(f, data) == bfAdd(f, data)

\* cms.New(width, depth): a depth x width matrix of zero counters
pcNew(width, depth) ==
    [matrix |-> [i \in 0..(depth - 1) |-> [j \in 0..(width - 1) |-> 0]],
     width  |-> width,
     depth  |-> depth]

\* cms.CountMinSketch.Add: matrix[r][hash_r(item) mod w] += count for each row r
RECURSIVE pcAddLoop(_, _, _, _, _)
pcAddLoop(s, matrix, data, count, i) ==
    IF i < s.depth
    THEN pcAddLoop(s, [matrix EXCEPT ![i][murmur[<<data, i>>] % s.width] = @ + count],
                   data, count, i + 1)
    ELSE matrix

pcAdd(s, data, count) == [s EXCEPT !.matrix = pcAddLoop(s, s.matrix, data, count, 0)]

\* cms.CountMinSketch.Estimate: the minimum over the rows
pcEstimate(s, data) ==
    LET cells == {s.matrix[i][murmur[<<data, i>>] % s.width] : i \in 0..(s.depth - 1)}
    IN  CHOOSE c \in cells : \A d \in cells : c <= d

\* hyperloglog.New(precision): 2^precision zero registers
RECURSIVE Pow2(_)
Pow2(n) == IF n = 0 THEN 1 ELSE 2 * Pow2(n - 1)

hllNew(precision) ==
    [precision |-> precision, registers |-> [i \in 0..(Pow2(precision) - 1) |-> 0]]

\* the register index: the top `precision` bits of the hash, as a number
RECURSIVE hllIndex(_, _)
hllIndex(bits, n) ==
    IF n = 0 THEN 0 ELSE 2 * hllIndex(bits, n - 1) + bits[n]

\* leading zero bits of bits[from..], plus one
RECURSIVE hllRank(_, _)
hllRank(bits, from) ==
    IF from > Len(bits) \/ bits[from] = 1 THEN 1 ELSE 1 + hllRank(bits, from + 1)

\* an Add that stores the new count whatever the register holds
hllAddAssign(h, data) ==
    LET bits == hllHash[data]
        idx  == hllIndex(bits, h.precision)
        rank == hllRank(bits, h.precision + 1)
    IN  [h EXCEPT !.registers[idx] = rank]

\* hyperloglog.HyperLogLog.Add: register[index] = max(current, rank)
hllAdd(h, data) ==
    LET bits == hllHash[data]
        idx  == hllIndex(bits, h.precision)
        rank == hllRank(bits, h.precision + 1)
    IN  [h EXCEPT !.registers[idx] = Max(@, rank)]

\* minhash.New(numHashes); Reset: every position back to the maximum sentinel
mhReset(numHashes) == [i \in 1..numHashes |-> MaxUint32]

\* minhash.MinHash.Update: one token; each position keeps the smaller hash
mhUpdate(sig, data) ==
    [i \in 1..Len(sig) |->
        IF LessU32(mhHash[<<data, i>>], sig[i]) THEN mhHash[<<data, i>>] ELSE sig[i]]

\* the three calls Reset, Update([]byte(text)), Signature() of ProcessLogEntry
\* and FindSimilarErrors: the signature of the one-token set {text}
mhSignatureOf(text) == mhUpdate(mhReset(LAConfig.numHashes), text)

\* minhash.JaccardSimilarity, in 1/1000: equal positions / length
mhJaccardPm(sig1, sig2) ==
    (1000 * Cardinality({i \in 1..Len(sig1) : sig1[i] = sig2[i]})) \div Len(sig1)

\* a Go map with no key
EmptyMap == [x \in {} |-> 0]

\* lsh.New(numHashes, bands, rows): `bands` empty bucket tables
lshNew(bands, rows) ==
    [bands |-> bands, rows |-> rows, hashTables |-> [b \in 1..bands |-> EmptyMap]]

\* the key of band b: its chunk of `rows` signature values
lshBandKey(l, signature, b) == SubSeq(signature, (b - 1) * l.rows + 1, b * l.rows)

\* map[string][]int lookup: a missing key gives the nil slice
lshBucket(table, key) == IF key \in DOMAIN table THEN table[key] ELSE << >>

\* table[key] = append(table[key], id)
lshPut(table, key, id) ==
    IF key \in DOMAIN table THEN [table EXCEPT ![key] = Append(@, id)]
    ELSE table @@ (key :> <<id>>)

\* lsh.LSH.Insert: append id to the bucket of each band's key
lshInsert(l, id, signature) ==
    [l EXCEPT !.hashTables =
        [b \in 1..l.bands |-> lshPut(l.hashTables[b], lshBandKey(l, signature, b), id)]]

SeqRange(q) == {q[n] : n \in 1..Len(q)}

\* lsh.LSH.Query: the ids in the buckets of the query's own band keys
lshQuery(l, signature) ==
    UNION {SeqRange(lshBucket(l.hashTables[b], lshBandKey(l, signature, b))) : b \in 1..l.bands}

\* NewLogAnalyzer
NewLogAnalyzer ==
    [deduper        |-> NewBloomFilter(LAConfig.expected, LAConfig.ratePm),
     pathCounter    |-> pcNew(LAConfig.width, LAConfig.depth),
     userCounter    |-> hllNew(LAConfig.precision),
     sessionCounter |-> hllNew(LAConfig.precision),
     errorMinhash   |-> mhReset(LAConfig.numHashes),
     errorLSH       |-> lshNew(LAConfig.bands, LAConfig.rows),
     errorMessages  |-> EmptyMap,
     nextErrorID    |-> 0]

\* map[int]LogEntry assignment m[id] = entry
mapPut(m, id, entry) ==
    IF id \in DOMAIN m THEN [m EXCEPT ![id] = entry] ELSE m @@ (id :> entry)

\* a processNew that does not mark the record as seen in the filter
processNewUnmarked(a, entry) ==
    LET counted ==
            [a EXCEPT !.pathCounter    = pcAdd(@, entry.Path, 1),
                      !.userCounter    = hllAdd(@, entry.UserID),
                      !.sessionCounter = hllAdd(@, entry.SessionID)]
        signature == mhSignatureOf(entry.Message)
    IN  IF entry.Status >= 400
        THEN [counted EXCEPT !.errorMinhash  = signature,
                             !.errorMessages = mapPut(@, a.nextErrorID, entry),
                             !.errorLSH      = lshInsert(@, a.nextErrorID, signature),
                             !.nextErrorID   = @ + 1]
        ELSE counted

\* a processNew that stores an error record without taking a fresh id
processNewSameID(a, entry) ==
    LET counted ==
            [a EXCEPT !.deduper        = deduperAdd(@, entryKey(entry)),
                      !.pathCounter    = pcAdd(@, entry.Path, 1),
                      !.userCounter    = hllAdd(@, entry.UserID),
                      !.sessionCounter = hllAdd(@, entry.SessionID)]
        signature == mhSignatureOf(entry.Message)
    IN  IF entry.Status >= 400
        THEN [counted EXCEPT !.errorMinhash  = signature,
                             !.errorMessages = mapPut(@, a.nextErrorID, entry),
                             !.errorLSH      = lshInsert(@, a.nextErrorID, signature)]
        ELSE counted

\* a processNew that stores every record, whatever its status
processNewStoreAll(a, entry) ==
    LET counted ==
            [a EXCEPT !.deduper        = deduperAdd(@, entryKey(entry)),
                      !.pathCounter    = pcAdd(@, entry.Path, 1),
                      !.userCounter    = hllAdd(@, entry.UserID),
                      !.sessionCounter = hllAdd(@, entry.SessionID)]
        signature == mhSignatureOf(entry.Message)
    IN  IF entry.Status >= 400
        THEN [counted EXCEPT !.errorMinhash  = signature,
                             !.errorMessages = mapPut(@, a.nextErrorID, entry),
                             !.errorLSH      = lshInsert(@, a.nextErrorID, signature),
                             !.nextErrorID   = @ + 1]
        ELSE [counted EXCEPT !.errorMessages = mapPut(@, a.nextErrorID, entry),
                             !.nextErrorID   = @ + 1]

\* ProcessLogEntry, from the Add to the filter on: a record that passed the
\* membership test
processNew(a, entry) ==
    LET counted ==
            [a EXCEPT !.deduper        = deduperAdd(@, entryKey(entry)),
                      !.pathCounter    = pcAdd(@, entry.Path, 1),
                      !.userCounter    = hllAdd(@, entry.UserID),
                      !.sessionCounter = hllAdd(@, entry.SessionID)]
        signature == mhSignatureOf(entry.Message)
    IN  IF entry.Status >= 400
        THEN [counted EXCEPT !.errorMinhash  = signature,
                             !.errorMessages = mapPut(@, a.nextErrorID, entry),
                             !.errorLSH      = lshInsert(@, a.nextErrorID, signature),
                             !.nextErrorID   = @ + 1]
        ELSE counted

\* a ProcessLogEntry that counts the path before it tests the filter
processCountFirst(a, entry) ==
    IF deduperTest(a.deduper, entryKey(entry))
    THEN [a EXCEPT !.pathCounter = pcAdd(@, entry.Path, 1)]
    ELSE processNew(a, entry)

\* LogAnalyzer.ProcessLogEntry
processLogEntry(a, entry) ==
    IF deduperTest(a.deduper, entryKey(entry)) THEN a ELSE processNew(a, entry)

\* pathCounts[i], pathCounts[j] = pathCounts[j], pathCounts[i]
Swap(q, i, j) == [q EXCEPT ![i] = q[j], ![j] = q[i]]

\* an inner loop that orders ascending
RECURSIVE sortInnerAsc(_, _, _)
sortInnerAsc(pathCounts, i, j) ==
    IF j <= Len(pathCounts)
    THEN sortInnerAsc(IF pathCounts[i].Count > pathCounts[j].Count
                      THEN Swap(pathCounts, i, j) ELSE pathCounts, i, j + 1)
    ELSE pathCounts

\* the inner loop of GetTopPaths: for j := i + 1; j < len; j++ { swap if less }
RECURSIVE sortInner(_, _, _)
sortInner(pathCounts, i, j) ==
    IF j <= Len(pathCounts)
    THEN sortInner(IF pathCounts[i].Count < pathCounts[j].Count
                   THEN Swap(pathCounts, i, j) ELSE pathCounts, i, j + 1)
    ELSE pathCounts

\* the outer loop of GetTopPaths
RECURSIVE sortOuter(_, _)
sortOuter(pathCounts, i) ==
    IF i <= Len(pathCounts) THEN sortOuter(sortInner(pathCounts, i, i + 1), i + 1)
    ELSE pathCounts

Min(a, b) == IF a <= b THEN a ELSE b

\* LogAnalyzer.GetTopPaths (n >= 0)
getTopPaths(a, paths, n) ==
    LET pathCounts == [i \in 1..Len(paths) |->
                          [Path |-> paths[i], Count |-> pcEstimate(a.pathCounter, paths[i])]]
        sorted     == sortOuter(pathCounts, 1)
    IN  [i \in 1..Min(n, Len(sorted)) |-> sorted[i].Path]

\* the zero LogEntry a map lookup gives for a missing id
ZeroLogEntry == LogEntry(0, "", "", "", "", 0, "")

mapGet(m, id) == IF id \in DOMAIN m THEN m[id] ELSE ZeroLogEntry

\* a similarIDs that keeps every candidate, whatever its similarity
similarIDsAll(a, errorMsg, thresholdPm) ==
    lshQuery(a.errorLSH, mhSignatureOf(errorMsg))

\* FindSimilarErrors with `similarity > threshold`
similarIDsStrict(a, errorMsg, thresholdPm) ==
    LET querySignature == mhSignatureOf(errorMsg)
        candidateIDs   == lshQuery(a.errorLSH, querySignature)
    IN  {id \in candidateIDs :
            mhJaccardPm(querySignature, mhSignatureOf(mapGet(a.errorMessages, id).Message))
                > thresholdPm}

\* LogAnalyzer.FindSimilarErrors: the ids whose entries are returned (the
\* thresholds are in 1/1000)
similarIDs(a, errorMsg, thresholdPm) ==
    LET querySignature == mhSignatureOf(errorMsg)
        candidateIDs   == lshQuery(a.errorLSH, querySignature)
    IN  {id \in candidateIDs :
            mhJaccardPm(querySignature, mhSignatureOf(mapGet(a.errorMessages, id).Message))
                >= thresholdPm}

findSimilarErrors(a, errorMsg, thresholdPm) ==
    {mapGet(a.errorMessages, id) : id \in similarIDs(a, errorMsg, thresholdPm)}

\* the signatures FindSimilarErrors can leave in errorMinhash: the one of the
\* candidate its loop saw last (the order of the candidates is not fixed), or
\* the query's if there was no candidate
minhashAfterFind(a, errorMsg) ==
    LET querySignature == mhSignatureOf(errorMsg)
        candidateIDs   == lshQuery(a.errorLSH, querySignature)
    IN  IF candidateIDs = {} THEN {querySignature}
        ELSE {mhSignatureOf(mapGet(a.errorMessages, id).Message) : id \in candidateIDs}

\* hash values of the dedup keys and of the paths the model draws from
KeyHashVals  == {0, 1, 2}
PathHashVals == {0, 1}

DedupHashes == [LAKeys \X (0..(NewLogAnalyzer.deduper.k - 1)) -> KeyHashVals]
PathHashes  == [LAPaths \X (0..(LAConfig.depth - 1)) -> PathHashVals]

\* the estimator's hash of the user and session ids: no two alike
LAHllHash ==
    [d \in LAUsers \cup LASessions |->
        CASE d = "u1" -> <<0, 0, 1>>
          [] d = "u2" -> <<1, 1, 0>>
          [] d = "s1" -> <<0, 1, 0>>
          [] d = "s2" -> <<1, 0, 0>>]

\* signature values of the error messages and of the empty message.  Only
\* the equality of two values at one position is ever observed, so the
\* values of "timeout" are fixed and those of the other messages are free.
MhVals == {U32(0, 1), U32(0, 2)}

MhHashes ==
    {h \in [(LAMessages \cup {""}) \X (1..LAConfig.numHashes) -> MhVals] :
        \A i \in 1..LAConfig.numHashes :
            h[<<"timeout", i>>] = U32(0, 1) /\ h[<<"", i>>] = U32(0, 2)}

NoProcess == [op |-> "none", entry |-> ZeroLogEntry, dropped |-> FALSE]
NoTop     == [op |-> "none", paths |-> << >>, n |-> 0, result |-> << >>]
NoSimilar == [op |-> "none", errorMsg |-> "", threshold |-> 0, result |-> {}]

\* hash functions under which no two dedup keys, and no two paths, collide
DedupApart == CHOOSE h \in DedupHashes :
                 \A x, y \in DOMAIN h : x # y => h[x] # h[y]
PathsApart == [x \in LAPaths \X (0..(LAConfig.depth - 1)) |->
                 IF x[1] = "/a" THEN 0 ELSE 1]
MhApart    == CHOOSE h \in MhHashes :
                 \A i \in 1..LAConfig.numHashes : h[<<"refused", i>>] = U32(0, 2)

\* the analyzer after NewLogAnalyzer, its hash functions drawn from the
\* given sets
LAStart(dedups, paths, mhs) ==
    /\ la = NewLogAnalyzer
    /\ murmur \in {kh @@ ph : kh \in dedups, ph \in paths}
    /\ hllHash = LAHllHash
    /\ mhHash \in mhs
    /\ laLog = << >>
    /\ laTop = NoTop
    /\ laSimilar = NoSimilar
    /\ bf = None /\ bfAdded = {} /\ bfLast = NoCall
    /\ cms = None /\ cmsTrue = None /\ cmsLast = NoCall /\ cmsOps = 0
    /\ writer = None /\ reader = None /\ fatal = FALSE
    /\ mh = None /\ mhLast = None
    /\ ds = None /\ dsLast = None
    /\ scan = None /\ hll = None /\ hllLast = None
    /\ ttl = None /\ ttlLast = None /\ lru = None /\ lruLast = None
    /\ db = None /\ bk = None /\ wgx = None /\ pool = None /\ fan = None
    /\ mbox = None /\ mon = None /\ sl = None /\ slLast = None

\* every hash of the dedup keys and of the processed paths
LAInit == LAStart(DedupHashes, {p \in PathHashes : p[<<"/c", 0>>] = 0}, {MhApart})

\* one call of ProcessLogEntry
ProcessLogEntry ==
    \E entry \in LogEntries :
        /\ Len(laLog) < MaxRecords
        /\ la' = processLogEntry(la, entry)
        /\ laLog' = Append(laLog,
               [entry   |-> entry,
                dropped |-> deduperTest(la.deduper, entryKey(entry)),
                est     |-> [p \in LAPaths |-> pcEstimate(la'.pathCounter, p)]])
        /\ laTop' = NoTop
        /\ laSimilar' = NoSimilar
        /\ UNCHANGED <<hashVars, notLA>>

\* one call of GetTopPaths, its arguments drawn from `inputs`
GetTopPaths(inputs) ==
    \E in \in inputs :
        /\ laTop' = [op |-> "GetTopPaths", paths |-> in[1], n |-> in[2],
                     result |-> getTopPaths(la, in[1], in[2])]
        /\ laSimilar' = NoSimilar
        /\ UNCHANGED <<la, laLog, hashVars, notLA>>

\* one call of FindSimilarErrors, its arguments drawn from `inputs`
FindSimilarErrors(inputs) ==
    \E in \in inputs :
        /\ laSimilar' = [op |-> "FindSimilarErrors", errorMsg |-> in[1],
                         threshold |-> in[2],
                         result |-> findSimilarErrors(la, in[1], in[2])]
        /\ \E sig \in minhashAfterFind(la, in[1]) :
               la' = [la EXCEPT !.errorMinhash = sig]
        /\ laTop' = NoTop
        /\ UNCHANGED <<laLog, hashVars, notLA>>

\* the known-paths lists and the n of the report and of the example
LATopInputs == {<<<<"/a", "/b", "/c">>, 1>>, <<<<"/b", "/c", "/a">>, 2>>}

\* the query of the example: one message at the 70% threshold
LASimilarInputs == {<<"timeout", 700>>}

LANext ==
    \/ ProcessLogEntry
    \/ GetTopPaths(LATopInputs)
    \/ FindSimilarErrors(LASimilarInputs)

SpecLA == LAInit /\ [][LANext]_vars

\* the record of the last ProcessLogEntry call
LastCall == laLog[Len(laLog)]

\* the same identity fields, path and status
SameIdentity(e1, e2) ==
    /\ e1.Timestamp = e2.Timestamp /\ e1.IP = e2.IP /\ e1.UserID = e2.UserID
    /\ e1.Path = e2.Path /\ e1.Status = e2.Status

\* C5: when the filter's membership test is true for the record's dedup key,
\* ProcessLogEntry changes nothing: filter, frequency sketch, both estimators,
\* signature generator, LSH index, error store and id counter stay as they were.
C5_DuplicateChangesNothing ==
    [][(/\ Len(laLog') = Len(laLog) + 1
        /\ deduperTest(la.deduper, entryKey(laLog'[Len(laLog')].entry))) => la' = la]_vars

\* a record that had been processed before was dropped, after an error record
\* had been stored
C5_Witness ==
    /\ Len(laLog) >= 2
    /\ LastCall.dropped
    /\ \E i \in 1..(Len(laLog) - 1) : laLog[i].entry = LastCall.entry /\ ~laLog[i].dropped
    /\ la.nextErrorID >= 1

\* processing a record again leaves the estimate of its path as it was
Idempotent ==
    \A i \in 2..Len(laLog) :
        (\E j \in 1..(i - 1) : SameIdentity(laLog[j].entry, laLog[i].entry))
            => laLog[i].est[laLog[i].entry.Path] = laLog[i - 1].est[laLog[i].entry.Path]

\* exactly three calls: one record twice and one record of another identity
\* with the same path
TwicePlusOne ==
    /\ Len(laLog) = 3
    /\ \E i, j, k \in 1..3 :
          /\ i < j /\ k # i /\ k # j
          /\ laLog[i].entry = laLog[j].entry
          /\ ~SameIdentity(laLog[k].entry, laLog[i].entry)
          /\ laLog[k].entry.Path = laLog[i].entry.Path

\* call i was dropped although no record with its key had been processed
FalsePositive(i) ==
    /\ laLog[i].dropped
    /\ \A j \in 1..(i - 1) : entryKey(laLog[j].entry) # entryKey(laLog[i].entry)

\* C6 as stated: processing a record a second time leaves the frequency
\* estimate of its path unchanged, so a record submitted twice plus one other
\* distinct record with the same path gives an estimate of 2 for that path.
C6_Original ==
    /\ Idempotent
    /\ TwicePlusOne => pcEstimate(la.pathCounter, laLog[1].entry.Path) = 2

\* C6 amended: processing a record a second time leaves the frequency estimate
\* of its path unchanged; a record submitted twice plus one other distinct
\* record with the same path gives an estimate of 2 for that path unless the
\* filter reports a false positive for one of the two keys, and 1 then.
C6_IdempotentDedup ==
    /\ Idempotent
    /\ TwicePlusOne =>
          pcEstimate(la.pathCounter, laLog[1].entry.Path)
              = IF \E i \in 1..3 : FalsePositive(i) THEN 1 ELSE 2

\* the record submitted twice and another of the same path, no false
\* positive: the second submission alone was dropped
C6_Witness ==
    /\ TwicePlusOne
    /\ ~\E i \in 1..3 : FalsePositive(i)
    /\ laLog[1].entry = laLog[3].entry
    /\ laLog[3].dropped
    /\ pcEstimate(la.pathCounter, laLog[1].entry.Path) = 2

\* the ProcessLogEntry calls so far that were not dropped and carried an
\* error status, in the order of the calls
StoredCalls == SelectSeq(laLog, LAMBDA c : ~c.dropped /\ c.entry.Status >= 400)

\* the ids held in the buckets of the LSH index
IndexedIDs(l) ==
    UNION {UNION {SeqRange(l.hashTables[b][key]) : key \in DOMAIN l.hashTables[b]} :
              b \in 1..l.bands}

\* the ids of the store are 0..nextErrorID-1, the k-th stored record sits
\* under id k-1, and the index holds ids of the store only
StoreInvariant ==
    /\ DOMAIN la.errorMessages = 0..(la.nextErrorID - 1)
    /\ la.nextErrorID = Len(StoredCalls)
    /\ \A k \in 1..Len(StoredCalls) : la.errorMessages[k - 1] = StoredCalls[k].entry
    /\ IndexedIDs(la.errorLSH) \subseteq DOMAIN la.errorMessages

\* C12: under sequential processing nextErrorID never decreases, the ids of
\* errorMessages are exactly 0..nextErrorID-1 in insertion order, and every
\* id in an LSH bucket is an id of errorMessages.
C12_StoreInvariant ==
    /\ []StoreInvariant
    /\ [][la'.nextErrorID >= la.nextErrorID]_vars

\* two error records were stored, with a plain record processed between
\* them, and both ids are in the index
C12_Witness ==
    /\ Len(laLog) = 3
    /\ laLog[2].entry.Status < 400 /\ ~laLog[2].dropped
    /\ la.nextErrorID = 2
    /\ IndexedIDs(la.errorLSH) = {0, 1}
    /\ la.errorMessages[0] # la.errorMessages[1]

\* the step is a ProcessLogEntry call
IsProcessStep == Len(laLog') = Len(laLog) + 1

\* the step added exactly one record to errorMessages, under a fresh id, and
\* that one id to the LSH index
AddedOneError ==
    \E id \in (DOMAIN la'.errorMessages) \ (DOMAIN la.errorMessages) :
        /\ DOMAIN la'.errorMessages = (DOMAIN la.errorMessages) \cup {id}
        /\ \A old \in DOMAIN la.errorMessages : la'.errorMessages[old] = la.errorMessages[old]
        /\ la'.errorMessages[id] = laLog'[Len(laLog')].entry
        /\ id \notin IndexedIDs(la.errorLSH)
        /\ IndexedIDs(la'.errorLSH) = IndexedIDs(la.errorLSH) \cup {id}

\* the step left the error store, the id counter and the LSH index alone
ErrorStateUnchanged ==
    /\ la'.errorMessages = la.errorMessages
    /\ la'.nextErrorID = la.nextErrorID
    /\ la'.errorLSH = la.errorLSH

\* the step marked the record in the filter, counted its path once and
\* offered its user and session to the estimators
CountedOnce(entry) ==
    /\ deduperTest(la'.deduper, entryKey(entry))
    /\ la'.deduper # la.deduper
    /\ pcEstimate(la'.pathCounter, entry.Path) = pcEstimate(la.pathCounter, entry.Path) + 1
    /\ la'.userCounter = hllAdd(la.userCounter, entry.UserID)
    /\ la'.sessionCounter = hllAdd(la.sessionCounter, entry.SessionID)

\* C13: a ProcessLogEntry call adds one record to errorMessages and one id
\* to the LSH index exactly if the record was not dropped and its status is
\* >= 400; a record not dropped with a lower status updates the filter, the
\* path sketch and the estimators and leaves the error store, the id counter
\* and the LSH index unchanged.
C13_Classification ==
    [][IsProcessStep =>
          LET c == laLog'[Len(laLog')]
          IN  /\ AddedOneError <=> (~c.dropped /\ c.entry.Status >= 400)
              /\ ~(~c.dropped /\ c.entry.Status >= 400) => ErrorStateUnchanged
              /\ (~c.dropped /\ c.entry.Status < 400) => CountedOnce(c.entry)]_vars

\* a plain record was counted, its resubmission dropped, and an error record
\* stored under id 0
C13_Witness ==
    /\ Len(laLog) = 3
    /\ laLog[1].entry.Status < 400 /\ ~laLog[1].dropped
    /\ laLog[2].dropped
    /\ laLog[3].entry.Status >= 400 /\ ~laLog[3].dropped
    /\ la.nextErrorID = 1 /\ la.errorMessages[0] = laLog[3].entry
    /\ IndexedIDs(la.errorLSH) = {0}

\* C15: the queries are read-only: a GetTopPaths or FindSimilarErrors call
\* (a step that is no ProcessLogEntry call) leaves every field of the
\* analyzer as it was: filter, path sketch, estimators, signature
\* generator, LSH index, error store and id counter.
C15_QueriesReadOnly ==
    [][(laLog' = laLog) => (la' = la)]_vars

(***************************************************************************)
(* FindSimilarErrors over every signature of the messages: the hashes of   *)
(* the signature generator are drawn from MhHashes, so that two messages   *)
(* can agree in both, one or no position, and the query is any message at  *)
(* any of four thresholds.                                                 *)
(***************************************************************************)
SimInputs == (LAMessages \cup {""}) \X {0, 500, 700, 1000}

SimInit == LAStart({DedupApart}, {PathsApart}, MhHashes)

SimNext ==
    \/ ProcessLogEntry
    \/ FindSimilarErrors(SimInputs)

SpecSim == SimInit /\ [][SimNext]_vars

\* the ids the last FindSimilarErrors call got from the index
QueryCandidates == lshQuery(la.errorLSH, mhSignatureOf(laSimilar.errorMsg))

\* the id is in the store and its record is as similar to the last query as
\* the threshold asks
MeetsThreshold(id) ==
    /\ id \in DOMAIN la.errorMessages
    /\ mhJaccardPm(mhSignatureOf(laSimilar.errorMsg),
                   mhSignatureOf(la.errorMessages[id].Message)) >= laSimilar.threshold

\* C14: FindSimilarErrors returns only records of errorMessages that are LSH
\* candidates of the query signature and whose estimated Jaccard similarity
\* to it is >= threshold, and it returns every such candidate.
C14_FindSimilarErrors ==
    laSimilar.op = "FindSimilarErrors" =>
        /\ \A e \in laSimilar.result :
              \E id \in QueryCandidates : MeetsThreshold(id) /\ la.errorMessages[id] = e
        /\ \A id \in QueryCandidates :
              MeetsThreshold(id) => la.errorMessages[id] \in laSimilar.result

\* the query had two candidates: one was returned, the other shared a band
\* with the query and stayed below the threshold
C14_Witness ==
    /\ laSimilar.op = "FindSimilarErrors"
    /\ Cardinality(QueryCandidates) = 2
    /\ Cardinality(laSimilar.result) = 1
    /\ \E id \in QueryCandidates : ~MeetsThreshold(id)

(***************************************************************************)
(* GetTopPaths as a function of the sketch and of its arguments: the       *)
(* counters of the path sketch are drawn from 0..MaxEstimate (what         *)
(* ProcessLogEntry calls can have counted), the known-paths list from the  *)
(* lists of at most three paths, n from 0..4.                              *)
(***************************************************************************)
KnownLists ==
    {<< >>} \cup {<<x>> : x \in LAPaths} \cup (LAPaths \X LAPaths)
        \cup (LAPaths \X LAPaths \X LAPaths)

TopInputs == KnownLists \X (0..4)

TopInit ==
    /\ \E m \in [0..(LAConfig.depth - 1) -> [0..(LAConfig.width - 1) -> 0..MaxEstimate]] :
          la = [NewLogAnalyzer EXCEPT !.pathCounter.matrix = m]
    /\ murmur \in {DedupApart @@ ph : ph \in PathHashes}
    /\ hllHash = LAHllHash
    /\ mhHash = MhApart
    /\ laLog = << >>
    /\ laTop = NoTop
    /\ laSimilar = NoSimilar
    /\ bf = None /\ bfAdded = {} /\ bfLast = NoCall
    /\ cms = None /\ cmsTrue = None /\ cmsLast = NoCall /\ cmsOps = 0
    /\ writer = None /\ reader = None /\ fatal = FALSE
    /\ mh = None /\ mhLast = None
    /\ ds = None /\ dsLast = None
    /\ scan = None /\ hll = None /\ hllLast = None
    /\ ttl = None /\ ttlLast = None /\ lru = None /\ lruLast = None
    /\ db = None /\ bk = None /\ wgx = None /\ pool = None /\ fan = None
    /\ mbox = None /\ mon = None /\ sl = None /\ slLast = None

\* one application to each sketch drawn
TopNext == laTop = NoTop /\ GetTopPaths(TopInputs)

SpecTop == TopInit /\ [][TopNext]_vars

\* the estimate GetTopPaths reads for a path
Est(path) == pcEstimate(la.pathCounter, path)

\* the place of the first occurrence of x in the list q
FirstIndex(q, x) == CHOOSE i \in 1..Len(q) : q[i] = x /\ \A j \in 1..(i - 1) : q[j] # x

\* the number of occurrences of x in the list q
Occurrences(q, x) == Cardinality({i \in 1..Len(q) : q[i] = x})

\* C7: ties are broken stably: in the result of GetTopPaths on a list of
\* distinct known paths, two paths with equal estimates stand in the same
\* relative order as in the list.
C7_StableTies ==
    (laTop.op = "GetTopPaths" /\ \A x \in SeqRange(laTop.paths) : Occurrences(laTop.paths, x) = 1)
        => \A i, j \in 1..Len(laTop.result) :
              (i < j /\ Est(laTop.result[i]) = Est(laTop.result[j]))
                  => FirstIndex(laTop.paths, laTop.result[i]) < FirstIndex(laTop.paths, laTop.result[j])

\* C8: GetTopPaths(known, n) returns min(n, len(known)) paths, all taken from
\* known (none more often than known holds it), ordered by non-increasing
\* estimate, and no path left out has a strictly higher estimate than a path
\* returned.
C8_TopPaths ==
    laTop.op = "GetTopPaths" =>
        LET known == laTop.paths
            r     == laTop.result
        IN  /\ Len(r) = Min(laTop.n, Len(known))
            /\ \A i \in 1..Len(r) : Occurrences(r, r[i]) <= Occurrences(known, r[i])
            /\ \A i, j \in 1..Len(r) : i < j => Est(r[i]) >= Est(r[j])
            /\ \A x \in SeqRange(known) :
                  Occurrences(r, x) < Occurrences(known, x)
                      => \A i \in 1..Len(r) : Est(x) <= Est(r[i])

\* two of three distinct known paths were asked for; the sort had to move
\* the most frequent path from the end to the front, and a path was left out
C8_Witness ==
    /\ laTop.op = "GetTopPaths"
    /\ Len(laTop.paths) = 3 /\ laTop.n = 2 /\ Len(laTop.result) = 2
    /\ Cardinality(SeqRange(laTop.paths)) = 3
    /\ laTop.result[1] = laTop.paths[3]
    /\ Est(laTop.result[1]) > Est(laTop.result[2])
    /\ Est(laTop.result[1]) > Est(laTop.paths[1])

(***************************************************************************)
(* ProcessLogEntry and FindSimilarErrors called from several goroutines.   *)
(* The LogAnalyzer holds no lock and no atomic: the calls interleave       *)
(* statement by statement on the shared fields, each call of a structure's *)
(* method taken as one step.  Two goroutines inside the errorMessages map  *)
(* at once, one of them writing, are a data race the runtime may answer    *)
(* with a fatal error.                                                     *)
(***************************************************************************)
Writers == {"w1", "w2"}

\* the records the concurrent callers submit: a plain one and the two errors
ConcEntries == {e \in LogEntries : e.SessionID = "s1" \/ e.Status >= 400}

\* a goroutine that has not called yet; storedAt and insertedAs remember
\* the id its call used at the store and at the index (-1: not yet)
IdleWriter ==
    [pc |-> "idle", entry |-> ZeroLogEntry, dropped |-> FALSE,
     signature |-> mhReset(LAConfig.numHashes),
     storedAt |-> -1, insertedAs |-> -1, id |-> 0]

\* lookups remembers each errorMessages[id] read of the call: id and entry
IdleReader ==
    [pc |-> "idle", errorMsg |-> "", threshold |-> 0,
     querySignature |-> mhReset(LAConfig.numHashes),
     candidateIDs |-> << >>, i |-> 1, entry |-> ZeroLogEntry,
     candidateSignature |-> mhReset(LAConfig.numHashes),
     similarErrors |-> << >>, lookups |-> {}]

\* the orders a slice can hold the ids of a set in
SeqsOf(S) ==
    {q \in [1..Cardinality(S) -> S] : \A m, n \in 1..Cardinality(S) : m # n => q[m] # q[n]}

ConcInit ==
    /\ la = NewLogAnalyzer
    /\ murmur = DedupApart @@ PathsApart
    /\ hllHash = LAHllHash
    /\ mhHash = MhApart
    /\ writer = [w \in Writers |-> IdleWriter]
    /\ reader = IdleReader
    /\ fatal = FALSE
    /\ laLog = << >> /\ laTop = NoTop /\ laSimilar = NoSimilar
    /\ bf = None /\ bfAdded = {} /\ bfLast = NoCall
    /\ cms = None /\ cmsTrue = None /\ cmsLast = NoCall /\ cmsOps = 0
    /\ mh = None /\ mhLast = None
    /\ ds = None /\ dsLast = None
    /\ scan = None /\ hll = None /\ hllLast = None
    /\ ttl = None /\ ttlLast = None /\ lru = None /\ lruLast = None
    /\ db = None /\ bk = None /\ wgx = None /\ pool = None /\ fan = None
    /\ mbox = None /\ mon = None /\ sl = None /\ slLast = None

\* goroutine w is at position pc and the program runs
At(w, pc) == ~fatal /\ writer[w].pc = pc

\* goroutine w moves on to position pc with the locals `locals`
Goto(w, pc, locals) == writer' = [writer EXCEPT ![w] = [locals EXCEPT !.pc = pc]]

\* go la.ProcessLogEntry(entry)
Call(w) ==
    /\ At(w, "idle")
    /\ \E entry \in ConcEntries : Goto(w, "test", [writer[w] EXCEPT !.entry = entry])
    /\ UNCHANGED <<la, reader, fatal, hashVars, notConc>>

\* if la.deduper.Test([]byte(entryKey)) { return }
Test(w) ==
    /\ At(w, "test")
    /\ IF deduperTest(la.deduper, entryKey(writer[w].entry))
       THEN Goto(w, "done", [writer[w] EXCEPT !.dropped = TRUE])
       ELSE Goto(w, "mark", writer[w])
    /\ UNCHANGED <<la, reader, fatal, hashVars, notConc>>

\* la.deduper.Add([]byte(entryKey))
DeduperAdd(w) ==
    /\ At(w, "mark")
    /\ la' = [la EXCEPT !.deduper = deduperAdd(@, entryKey(writer[w].entry))]
    /\ Goto(w, "path", writer[w])
    /\ UNCHANGED <<reader, fatal, hashVars, notConc>>

\* la.pathCounter.Add([]byte(entry.Path), 1)
PathCounterAdd(w) ==
    /\ At(w, "path")
    /\ la' = [la EXCEPT !.pathCounter = pcAdd(@, writer[w].entry.Path, 1)]
    /\ Goto(w, "user", writer[w])
    /\ UNCHANGED <<reader, fatal, hashVars, notConc>>

\* la.userCounter.Add([]byte(entry.UserID))
UserCounterAdd(w) ==
    /\ At(w, "user")
    /\ la' = [la EXCEPT !.userCounter = hllAdd(@, writer[w].entry.UserID)]
    /\ Goto(w, "session", writer[w])
    /\ UNCHANGED <<reader, fatal, hashVars, notConc>>

\* la.sessionCounter.Add([]byte(entry.SessionID)); if entry.Status >= 400 {
SessionCounterAdd(w) ==
    /\ At(w, "session")
    /\ la' = [la EXCEPT !.sessionCounter = hllAdd(@, writer[w].entry.SessionID)]
    /\ Goto(w, IF writer[w].entry.Status >= 400 THEN "reset" ELSE "done", writer[w])
    /\ UNCHANGED <<reader, fatal, hashVars, notConc>>

\* la.errorMinhash.Reset()
MinhashReset(w) ==
    /\ At(w, "reset")
    /\ la' = [la EXCEPT !.errorMinhash = mhReset(LAConfig.numHashes)]
    /\ Goto(w, "update", writer[w])
    /\ UNCHANGED <<reader, fatal, hashVars, notConc>>

\* la.errorMinhash.Update([]byte(entry.Message))
MinhashUpdate(w) ==
    /\ At(w, "update")
    /\ la' = [la EXCEPT !.errorMinhash = mhUpdate(@, writer[w].entry.Message)]
    /\ Goto(w, "signature", writer[w])
    /\ UNCHANGED <<reader, fatal, hashVars, notConc>>

\* signature := la.errorMinhash.Signature()
MinhashSignature(w) ==
    /\ At(w, "signature")
    /\ Goto(w, "store", [writer[w] EXCEPT !.signature = la.errorMinhash])
    /\ UNCHANGED <<la, reader, fatal, hashVars, notConc>>

\* la.errorMessages[la.nextErrorID] = entry
StoreError(w) ==
    /\ At(w, "store")
    /\ la' = [la EXCEPT !.errorMessages = mapPut(@, la.nextErrorID, writer[w].entry)]
    /\ Goto(w, "insert", [writer[w] EXCEPT !.storedAt = la.nextErrorID])
    /\ UNCHANGED <<reader, fatal, hashVars, notConc>>

\* la.errorLSH.Insert(la.nextErrorID, signature)
InsertLSH(w) ==
    /\ At(w, "insert")
    /\ la' = [la EXCEPT !.errorLSH = lshInsert(@, la.nextErrorID, writer[w].signature)]
    /\ Goto(w, "load", [writer[w] EXCEPT !.insertedAs = la.nextErrorID])
    /\ UNCHANGED <<reader, fatal, hashVars, notConc>>

\* la.nextErrorID++ : the load of the field
LoadNextErrorID(w) ==
    /\ At(w, "load")
    /\ Goto(w, "increment", [writer[w] EXCEPT !.id = la.nextErrorID])
    /\ UNCHANGED <<la, reader, fatal, hashVars, notConc>>

\* la.nextErrorID++ : the store of the value loaded, plus one
StoreNextErrorID(w) ==
    /\ At(w, "increment")
    /\ la' = [la EXCEPT !.nextErrorID = writer[w].id + 1]
    /\ Goto(w, "done", writer[w])
    /\ UNCHANGED <<reader, fatal, hashVars, notConc>>

\* the reader is at position pc and the program runs
ReaderAt(pc) == ~fatal /\ reader.pc = pc

\* go la.FindSimilarErrors(errorMsg, threshold)
FindCall ==
    /\ ReaderAt("idle")
    /\ \E in \in LASimilarInputs :
           reader' = [reader EXCEPT !.pc = "reset", !.errorMsg = in[1], !.threshold = in[2]]
    /\ UNCHANGED <<la, writer, fatal, hashVars, notConc>>

\* la.errorMinhash.Reset()
QueryReset ==
    /\ ReaderAt("reset")
    /\ la' = [la EXCEPT !.errorMinhash = mhReset(LAConfig.numHashes)]
    /\ reader' = [reader EXCEPT !.pc = "update"]
    /\ UNCHANGED <<writer, fatal, hashVars, notConc>>

\* la.errorMinhash.Update([]byte(errorMsg))
QueryUpdate ==
    /\ ReaderAt("update")
    /\ la' = [la EXCEPT !.errorMinhash = mhUpdate(@, reader.errorMsg)]
    /\ reader' = [reader EXCEPT !.pc = "signature"]
    /\ UNCHANGED <<writer, fatal, hashVars, notConc>>

\* querySignature := la.errorMinhash.Signature()
QuerySignature ==
    /\ ReaderAt("signature")
    /\ reader' = [reader EXCEPT !.pc = "query", !.querySignature = la.errorMinhash]
    /\ UNCHANGED <<la, writer, fatal, hashVars, notConc>>

\* candidateIDs := la.errorLSH.Query(querySignature); the loop begins
QueryLSH ==
    /\ ReaderAt("query")
    /\ \E ids \in SeqsOf(lshQuery(la.errorLSH, reader.querySignature)) :
           reader' = [reader EXCEPT !.pc = IF Len(ids) = 0 THEN "done" ELSE "lookup",
                                    !.candidateIDs = ids, !.i = 1]
    /\ UNCHANGED <<la, writer, fatal, hashVars, notConc>>

\* entry := la.errorMessages[id]
LookupError ==
    /\ ReaderAt("lookup")
    /\ LET id    == reader.candidateIDs[reader.i]
           entry == mapGet(la.errorMessages, id)
       IN  reader' = [reader EXCEPT !.pc = "creset", !.entry = entry,
                                    !.lookups = @ \cup {[id |-> id, entry |-> entry]}]
    /\ UNCHANGED <<la, writer, fatal, hashVars, notConc>>

\* la.errorMinhash.Reset() of the loop
CandidateReset ==
    /\ ReaderAt("creset")
    /\ la' = [la EXCEPT !.errorMinhash = mhReset(LAConfig.numHashes)]
    /\ reader' = [reader EXCEPT !.pc = "cupdate"]
    /\ UNCHANGED <<writer, fatal, hashVars, notConc>>

\* la.errorMinhash.Update([]byte(entry.Message))
CandidateUpdate ==
    /\ ReaderAt("cupdate")
    /\ la' = [la EXCEPT !.errorMinhash = mhUpdate(@, reader.entry.Message)]
    /\ reader' = [reader EXCEPT !.pc = "csignature"]
    /\ UNCHANGED <<writer, fatal, hashVars, notConc>>

\* candidateSignature := la.errorMinhash.Signature()
CandidateSignature ==
    /\ ReaderAt("csignature")
    /\ reader' = [reader EXCEPT !.pc = "compare", !.candidateSignature = la.errorMinhash]
    /\ UNCHANGED <<la, writer, fatal, hashVars, notConc>>

\* similarity := JaccardSimilarity(...); if similarity >= threshold { append };
\* the next id of the loop, or return similarErrors
CompareSimilarity ==
    /\ ReaderAt("compare")
    /\ reader' =
           [reader EXCEPT
               !.pc = IF reader.i < Len(reader.candidateIDs) THEN "lookup" ELSE "done",
               !.i  = @ + 1,
               !.similarErrors =
                   IF mhJaccardPm(reader.querySignature, reader.candidateSignature)
                          >= reader.threshold
                   THEN Append(@, reader.entry) ELSE @]
    /\ UNCHANGED <<la, writer, fatal, hashVars, notConc>>

\* fatal error: concurrent map writes / concurrent map read and map write.
\* A goroutine is at the assignment to errorMessages while another is at an
\* access of the same map.
MapFault ==
    /\ ~fatal
    /\ \E w \in Writers :
          /\ writer[w].pc = "store"
          /\ \/ \E v \in Writers \ {w} : writer[v].pc = "store"
             \/ reader.pc = "lookup"
    /\ fatal' = TRUE
    /\ UNCHANGED <<la, writer, reader, hashVars, notConc>>

ConcNext ==
    \/ \E w \in Writers : Call(w)
    \/ \E w \in Writers : Test(w)
    \/ \E w \in Writers : DeduperAdd(w)
    \/ \E w \in Writers : PathCounterAdd(w)
    \/ \E w \in Writers : UserCounterAdd(w)
    \/ \E w \in Writers : SessionCounterAdd(w)
    \/ \E w \in Writers : MinhashReset(w)
    \/ \E w \in Writers : MinhashUpdate(w)
    \/ \E w \in Writers : MinhashSignature(w)
    \/ \E w \in Writers : StoreError(w)
    \/ \E w \in Writers : InsertLSH(w)
    \/ \E w \in Writers : LoadNextErrorID(w)
    \/ \E w \in Writers : StoreNextErrorID(w)
    \/ FindCall
    \/ QueryReset
    \/ QueryUpdate
    \/ QuerySignature
    \/ QueryLSH
    \/ LookupError
    \/ CandidateReset
    \/ CandidateUpdate
    \/ CandidateSignature
    \/ CompareSimilarity
    \/ MapFault

SpecLAConc == ConcInit /\ [][ConcNext]_vars

\* the call of goroutine w has stored its record in errorMessages
Stored(w) == writer[w].storedAt >= 0

\* C9: under concurrent ProcessLogEntry calls every error record that passed
\* the membership test is stored under an id of its own: no two calls store
\* under the same id, and the record a call stored stays in the store under
\* its id.
C9_DistinctIds ==
    \A w \in Writers :
        Stored(w) =>
            /\ \A v \in Writers \ {w} : Stored(v) => writer[v].storedAt # writer[w].storedAt
            /\ mapGet(la.errorMessages, writer[w].storedAt) = writer[w].entry

\* C10: every id a concurrent FindSimilarErrors took from the LSH index and
\* looked up in errorMessages gave it the record of a call that inserted
\* that id into the index.
C10_ReaderSeesOwnRecord ==
    \A l \in reader.lookups :
        \E w \in Writers : writer[w].insertedAs = l.id /\ writer[w].entry = l.entry

\* the call of goroutine w has added its record's path to pathCounter
Counted(w) ==
    \/ writer[w].pc \in {"user", "session", "reset", "update", "signature",
                         "store", "insert", "load", "increment"}
    \/ writer[w].pc = "done" /\ ~writer[w].dropped

\* C11: of two concurrent ProcessLogEntry calls whose records have the same
\* dedup key, at most one counts its record: never have both added the path
\* to the frequency sketch (and gone on to the estimators and the store).
C11_CountedOnce ==
    \A w, v \in Writers :
        (w # v /\ Counted(w) /\ Counted(v))
            => entryKey(writer[w].entry) # entryKey(writer[v].entry)

\* the one-bits of the filter, as pairs of word and bit
SetBits(f) == {<<w, b>> \in (DOMAIN f.bitset) \X (0..63) : b \in f.bitset[w]}

\* C16: the bits of the filter are monotone: in every step of every sequence
\* of Add and Contains calls a set bit stays set, a Contains call changes no
\* bit, an Add call only turns bits on, and size, k and the number of words
\* stay as constructed.
C16_BitsMonotone ==
    [][/\ SetBits(bf) \subseteq SetBits(bf')
       /\ DOMAIN bf'.bitset = DOMAIN bf.bitset
       /\ bf'.size = bf.size /\ bf'.k = bf.k
       /\ (bfLast'.op = "Contains") => (bf'.bitset = bf.bitset)]_vars

\* two items were added, their bits lie in one word and differ, and a
\* Contains call came after them
C16_Witness ==
    /\ bfLast.op = "Contains"
    /\ Cardinality(bfAdded) = 2
    /\ \E w \in DOMAIN bf.bitset : Cardinality(bf.bitset[w]) >= 2

(***************************************************************************)
(* NewBloomFilter on any arguments.  The function has one result, the      *)
(* *BloomFilter: it returns no error and checks nothing.  With             *)
(* expectedElements = 0 the hash count is uint(NaN), which the language    *)
(* leaves to the implementation.                                           *)
(***************************************************************************)
\* the arguments drawn: those of BFConfigs, and arguments with
\* expectedElements <= 0 or falsePositiveRate = 1.0
NewInputs == BFConfigs \cup {<<1, 1000>>, <<-1, 1000>>, <<0, 500>>, <<0, 1000>>}

\* uint(NaN): zero, or a value above every hash count (0 on arm64, 2^63 on
\* amd64, here the largest integer)
NaNAsUint == {0, 2147483647}

\* the filters NewBloomFilter(expectedElements, pm) can return
newBloomFilterOutcomes(expectedElements, pm) ==
    IF expectedElements = 0
    THEN {[bitset |-> << >>, size |-> 0, k |-> k] : k \in NaNAsUint}
    ELSE {NewBloomFilter(expectedElements, pm)}

\* the zero BloomFilter, before the constructor ran
ZeroBloomFilter == [bitset |-> << >>, size |-> 0, k |-> 0]

NewInit ==
    /\ bf = ZeroBloomFilter
    /\ murmur \in [Items \X (0..1) -> HashVals]
    /\ bfAdded = {}
    /\ bfLast = NoCall
    /\ cms = None /\ cmsTrue = None /\ cmsLast = NoCall /\ cmsOps = 0
    /\ hllHash = None /\ mhHash = None
    /\ la = None /\ laLog = << >> /\ laTop = None /\ laSimilar = None
    /\ writer = None /\ reader = None /\ fatal = FALSE
    /\ mh = None /\ mhLast = None
    /\ ds = None /\ dsLast = None
    /\ scan = None /\ hll = None /\ hllLast = None
    /\ ttl = None /\ ttlLast = None /\ lru = None /\ lruLast = None
    /\ db = None /\ bk = None /\ wgx = None /\ pool = None /\ fan = None
    /\ mbox = None /\ mon = None /\ sl = None /\ slLast = None

\* bf := NewBloomFilter(expectedElements, falsePositiveRate); err is what
\* the call reported to its caller
BFNew ==
    /\ bfLast = NoCall
    /\ \E in \in NewInputs :
          /\ bf' \in newBloomFilterOutcomes(in[1], in[2])
          /\ bfLast' = [op |-> "NewBloomFilter", expectedElements |-> in[1],
                        falsePositiveRate |-> in[2], err |-> None]
    /\ UNCHANGED <<bfAdded, hashVars, notBloom>>

\* the constructor, then Add and Contains on a filter that has bits
NewNext ==
    \/ BFNew
    \/ bf.size > 0 /\ BFAdd
    \/ bf.size > 0 /\ BFContains

SpecNew == NewInit /\ [][NewNext]_vars

\* C17: NewBloomFilter fails with a ConfigurationError, and produces no
\* filter, when expectedElements <= 0 or falsePositiveRate is not strictly
\* between 0 and 1.
C17_ConfigurationError ==
    (/\ bfLast.op = "NewBloomFilter"
     /\ \/ bfLast.expectedElements <= 0
        \/ bfLast.falsePositiveRate <= 0
        \/ bfLast.falsePositiveRate >= 1000)
        => (bfLast.err = "ConfigurationError" /\ bf = ZeroBloomFilter)

(***************************************************************************)
(* MinHash of the document-similarity program.  murmur3.Sum32WithSeed is   *)
(* the fixed function mhHash, <<string, seed>> -> uint32; a float64        *)
(* quotient is kept as its numerator and denominator.                      *)
(***************************************************************************)
MaxHashes == 2     \* largest numHashes a generator is built with

\* the strings a token set is made of, and the slices passed as a set
Tokens == {"a", "b"}
TokenLists ==
    {<< >>} \cup {<<x>> : x \in Tokens} \cup (Tokens \X Tokens)
        \cup (Tokens \X Tokens \X Tokens)

\* hash values: only their order and their equality are observed
SumVals == {U32(0, 1), U32(0, 2)}

\* float64(num) / float64(den), and the constant 0.0
Float(num, den) == [num |-> num, den |-> den]
Zero64 == Float(0, 1)

\* NewMinHash: seeds[i] = uint32(i + 1)
NewMinHash(numHashes) ==
    [numHashes |-> numHashes, seeds |-> [i \in 1..numHashes |-> i]]

\* signature[i] = ^uint32(0) for every position
sigInitZero(m) == [i \in 1..m.numHashes |-> ZeroU32]

sigInit(m) == [i \in 1..m.numHashes |-> MaxUint32]

\* an element step that keeps the hash of the element, smaller or not
sigElementLast(m, signature, s) ==
    [i \in 1..Len(m.seeds) |-> mhHash[<<s, m.seeds[i]>>]]

\* one element of the set: for i, seed := range mh.seeds {
\*   hash := Sum32WithSeed(s, seed); if hash < signature[i] { signature[i] = hash } }
sigElement(m, signature, s) ==
    [i \in 1..Len(m.seeds) |->
        LET hash == mhHash[<<s, m.seeds[i]>>]
        IN  IF LessU32(hash, signature[i]) THEN hash ELSE signature[i]]

\* for _, s := range set
RECURSIVE sigLoop(_, _, _, _)
sigLoop(m, signature, set, n) ==
    IF n <= Len(set) THEN sigLoop(m, sigElement(m, signature, set[n]), set, n + 1)
    ELSE signature

\* MinHash.Signature
Signature(m, set) == sigLoop(m, sigInit(m), set, 1)

\* MinHash.Similarity
Similarity(m, sig1, sig2) ==
    IF Len(sig1) # m.numHashes \/ Len(sig2) # m.numHashes
    THEN Zero64
    ELSE Float(Cardinality({i \in 1..m.numHashes : sig1[i] = sig2[i]}), m.numHashes)

\* the signatures passed to Similarity: every length up to one more than the
\* largest numHashes
SigInputs == UNION {[1..n -> SumVals] : n \in 0..(MaxHashes + 1)}

NoMinHashCall ==
    [op |-> "none", sets |-> << >>, sigs |-> << >>, result |-> Zero64, err |-> None]

MHInit ==
    /\ \E n \in 1..MaxHashes : mh = NewMinHash(n)
    /\ mhHash \in [Tokens \X (1..MaxHashes) -> SumVals]
    /\ mhLast = NoMinHashCall
    /\ murmur = None /\ hllHash = None
    /\ bf = None /\ bfAdded = {} /\ bfLast = NoCall
    /\ cms = None /\ cmsTrue = None /\ cmsLast = NoCall /\ cmsOps = 0
    /\ la = None /\ laLog = << >> /\ laTop = None /\ laSimilar = None
    /\ writer = None /\ reader = None /\ fatal = FALSE
    /\ ds = None /\ dsLast = None
    /\ scan = None /\ hll = None /\ hllLast = None
    /\ ttl = None /\ ttlLast = None /\ lru = None /\ lruLast = None
    /\ db = None /\ bk = None /\ wgx = None /\ pool = None /\ fan = None
    /\ mbox = None /\ mon = None /\ sl = None /\ slLast = None

\* signature := mh.Signature(set)
MHSignature ==
    \E set \in TokenLists :
        /\ mhLast = NoMinHashCall
        /\ mhLast' = [op |-> "Signature", sets |-> <<set>>,
                      sigs |-> <<Signature(mh, set)>>, result |-> Zero64, err |-> None]
        /\ UNCHANGED <<mh, hashVars, notMH>>

\* similarity := mh.Similarity(sig1, sig2); the function has one result
MHSimilarity ==
    \E sig1, sig2 \in SigInputs :
        /\ mhLast = NoMinHashCall
        /\ mhLast' = [op |-> "Similarity", sets |-> << >>, sigs |-> <<sig1, sig2>>,
                      result |-> Similarity(mh, sig1, sig2), err |-> None]
        /\ UNCHANGED <<mh, hashVars, notMH>>

\* the signatures of two sets, then their similarity (AddDocument twice,
\* then FindSimilar's  ds.minHash.Similarity(doc.Signature, otherDoc.Signature))
MHCompare ==
    \E set1, set2 \in TokenLists :
        LET sig1 == Signature(mh, set1)
            sig2 == Signature(mh, set2)
        IN  /\ mhLast = NoMinHashCall
            /\ mhLast' = [op |-> "Compare", sets |-> <<set1, set2>>,
                          sigs |-> <<sig1, sig2>>,
                          result |-> Similarity(mh, sig1, sig2), err |-> None]
            /\ UNCHANGED <<mh, hashVars, notMH>>

\* one call on each generator and hash function drawn
MHNext == MHSignature \/ MHSimilarity \/ MHCompare

SpecMH == MHInit /\ [][MHNext]_vars

\* C18: the signature of an empty token set has length numHashes and holds
\* the maximum uint32 in every position, and it is returned as a value (the
\* call reports no error); every signature a generator produces has length
\* numHashes.
C18_EmptySetSignature ==
    mhLast.op \in {"Signature", "Compare"} =>
        \A n \in 1..Len(mhLast.sigs) :
            /\ Len(mhLast.sigs[n]) = mh.numHashes
            /\ mhLast.err = None
            /\ mhLast.sets[n] = << >> =>
                  \A i \in 1..mh.numHashes : mhLast.sigs[n][i] = MaxUint32

\* Signature was called with the empty set on a generator of two hashes
C18_Witness ==
    /\ mhLast.op = "Signature"
    /\ mhLast.sets = << << >> >>
    /\ mh.numHashes = 2
    /\ mhLast.sigs[1] = <<MaxUint32, MaxUint32>>

\* the float64 is exactly 1.0
IsOne(x) == x.den > 0 /\ x.num = x.den

\* C19: for two identical token sets (the same elements, in any order and
\* with any repetitions) the signatures are equal position by position and
\* Similarity is exactly 1.0.
C19_IdenticalSets ==
    (mhLast.op = "Compare" /\ SeqRange(mhLast.sets[1]) = SeqRange(mhLast.sets[2]))
        => /\ mhLast.sigs[1] = mhLast.sigs[2]
           /\ IsOne(mhLast.result)

\* two slices of the same two elements, in different orders and one with a
\* repetition, were compared; the two elements hash differently
C19_Witness ==
    /\ mhLast.op = "Compare"
    /\ SeqRange(mhLast.sets[1]) = Tokens /\ SeqRange(mhLast.sets[2]) = Tokens
    /\ Len(mhLast.sets[1]) # Len(mhLast.sets[2])
    /\ mhLast.sets[1][1] # mhLast.sets[2][1]
    /\ mh.numHashes = 2
    /\ \A i \in 1..2 : mhHash[<<"a", i>>] # mhHash[<<"b", i>>]
    /\ IsOne(mhLast.result)

\* C20: Similarity fails with a ShapeMismatchError, and returns no
\* similarity value, when the two signatures differ in length or a length
\* differs from numHashes.
C20_ShapeMismatchError ==
    (/\ mhLast.op = "Similarity"
     /\ \/ Len(mhLast.sigs[1]) # Len(mhLast.sigs[2])
        \/ Len(mhLast.sigs[1]) # mh.numHashes
        \/ Len(mhLast.sigs[2]) # mh.numHashes)
        => mhLast.err = "ShapeMismatchError"

(***************************************************************************)
(* LSH and DocumentSet of the document-similarity program.  A band key is  *)
(* computed on uint32 as bandToString computes it: xor, multiplication     *)
(* modulo 2^32 and decimal formatting.                                     *)
(***************************************************************************)
\* a ^ b on 16-bit halves, bit by bit
BitWeights == <<1, 2, 4, 8, 16, 32, 64, 128, 256, 512, 1024, 2048, 4096, 8192, 16384, 32768>>

XorBit(x, y, i) == (((x \div BitWeights[i]) + (y \div BitWeights[i])) % 2) * BitWeights[i]

Xor16(x, y) ==
    XorBit(x, y, 1) + XorBit(x, y, 2) + XorBit(x, y, 3) + XorBit(x, y, 4)
        + XorBit(x, y, 5) + XorBit(x, y, 6) + XorBit(x, y, 7) + XorBit(x, y, 8)
        + XorBit(x, y, 9) + XorBit(x, y, 10) + XorBit(x, y, 11) + XorBit(x, y, 12)
        + XorBit(x, y, 13) + XorBit(x, y, 14) + XorBit(x, y, 15) + XorBit(x, y, 16)

XorU32(a, b) == U32(Xor16(a.hi, b.hi), Xor16(a.lo, b.lo))

\* the four bytes of a uint32, least significant first
Bytes(a) == <<a.lo % 256, a.lo \div 256, a.hi % 256, a.hi \div 256>>

\* a * b on uint32 (wraps): schoolbook product of the bytes, columns 0..3
MulU32(a, b) ==
    LET p == Bytes(a)
        q == Bytes(b)
        t0 == p[1] * q[1]
        t1 == p[1] * q[2] + p[2] * q[1] + (t0 \div 256)
        t2 == p[1] * q[3] + p[2] * q[2] + p[3] * q[1] + (t1 \div 256)
        t3 == p[1] * q[4] + p[2] * q[3] + p[3] * q[2] + p[4] * q[1] + (t2 \div 256)
    IN U32((t3 % 256) * 256 + (t2 % 256), (t1 % 256) * 256 + (t0 % 256))

\* uint32(math.MaxUint32) / 2
HalfMaxUint32 == U32((Half \div 2) - 1, Half - 1)

\* fmt.Sprintf("%d", h) of a uint32, by long division of the halves
RECURSIVE FormatU32(_)
FormatU32(h) ==
    LET mid  == (h.hi % 10) * Half + h.lo
        quot == U32(h.hi \div 10, mid \div 10)
    IN  IF h.hi = 0 /\ h.lo < 10 THEN Digits[h.lo + 1]
        ELSE FormatU32(U32(quot.hi + (quot.lo \div Half), quot.lo % Half))
                 \o Digits[(mid % 10) + 1]

\* bandToString: h := MaxUint32; for v in band { h ^= v; h *= MaxUint32/2 };
\* bandHash is h after the first n values
RECURSIVE bandHash(_, _)
bandHash(band, n) ==
    IF n = 0 THEN MaxUint32
    ELSE MulU32(XorU32(bandHash(band, n - 1), band[n]), HalfMaxUint32)

bandToString(band) == FormatU32(bandHash(band, Len(band)))

\* NewLSH: one empty table per band, a generator of bands * rows hashes
NewLSH(bands, rows) ==
    [bands        |-> bands,
     rows         |-> rows,
     hashTables   |-> [i \in 1..bands |-> EmptyMap],
     minHash      |-> NewMinHash(bands * rows),
     numDocuments |-> 0]

\* a chunk that is always the first one, whatever the band
bandSigFirst(lsh, signature, i) ==
    SubSeq(signature, 1, IF lsh.rows > Len(signature) THEN Len(signature) ELSE lsh.rows)

\* bandSig := signature[start:end] of band i (from 0), end clamped to len(signature)
bandSig(lsh, signature, i) ==
    LET start == i * lsh.rows
        end   == IF start + lsh.rows > Len(signature) THEN Len(signature)
                 ELSE start + lsh.rows
    IN  SubSeq(signature, start + 1, end)

\* lsh.hashTables[i][bandKey] read: a missing key gives the nil slice
tableGet(table, bandKey) == IF bandKey \in DOMAIN table THEN table[bandKey] ELSE << >>

\* lsh.hashTables[i][bandKey] = append(lsh.hashTables[i][bandKey], docID)
tableAppend(table, bandKey, docID) ==
    mapPut(table, bandKey, Append(tableGet(table, bandKey), docID))

\* LSH.AddDocument
lshAddDocument(lsh, docID, shingles) ==
    LET signature == Signature(lsh.minHash, shingles)
    IN  [lsh EXCEPT
            !.hashTables =
                [i \in 1..lsh.bands |->
                    tableAppend(lsh.hashTables[i],
                                bandToString(bandSig(lsh, signature, i - 1)), docID)],
            !.numDocuments = @ + 1]

\* x >= threshold on float64, the threshold in 1/1000; 0/0 is NaN and
\* compares false
GeqFloat(x, threshold) == x.den # 0 /\ x.num * 1000 >= threshold * x.den

\* the candidates map of LSH.FindSimilar: the ids in the buckets of the
\* query's band keys
lshCandidates(lsh, signature) ==
    UNION {SeqRange(tableGet(lsh.hashTables[i],
                             bandToString(bandSig(lsh, signature, i - 1)))) :
           i \in 1..lsh.bands}

\* LSH.FindSimilar: similarity := 0.0 for every candidate, kept when it is
\* >= threshold; the result is the map similarities
lshFindSimilar(lsh, shingles, threshold) ==
    LET signature  == Signature(lsh.minHash, shingles)
        similarity == Zero64
    IN  [docID \in {c \in lshCandidates(lsh, signature) : GeqFloat(similarity, threshold)}
            |-> similarity]

\* NewDocumentSet: rows := hashFunctions / bands
NewDocumentSet(hashFunctions, bands) ==
    LET rows == hashFunctions \div bands
    IN  [docs    |-> EmptyMap,
         minHash |-> NewMinHash(hashFunctions),
         lsh     |-> NewLSH(bands, rows),
         nextID  |-> 0]

\* DocumentSet.AddDocument once the file is open; shingles is what
\* DocumentToSet(file, 3) returned
dsAddDocument(d, path, shingles) ==
    LET docID == d.nextID
        doc   == [ID |-> docID, Path |-> path, Shingles |-> shingles,
                  Signature |-> Signature(d.minHash, shingles)]
    IN  [d EXCEPT !.nextID = @ + 1,
                  !.docs   = mapPut(@, docID, doc),
                  !.lsh    = lshAddDocument(@, docID, shingles)]

\* DocumentSet.FindSimilar: the ids of the documents appended to similar
dsFindSimilar(d, docID, threshold) ==
    IF docID \notin DOMAIN d.docs THEN {}
    ELSE LET doc        == d.docs[docID]
             candidates == lshFindSimilar(d.lsh, doc.Shingles, threshold)
         IN  {id \in (DOMAIN candidates) \ {docID} :
                 GeqFloat(Similarity(d.minHash, doc.Signature, d.docs[id].Signature),
                          threshold)}

\* the orders in which a range over a map can visit the keys S
Orders(S) ==
    {q \in [1..Cardinality(S) -> S] : \A m, n \in 1..Cardinality(S) : q[m] = q[n] => m = n}

MaxDocs == 2       \* documents added to one DocumentSet

\* the files on disk, each with the shingles DocumentToSet makes of it
Files ==
    {[path |-> "empty.txt",   readable |-> TRUE,  shingles |-> << >>],
     [path |-> "a.txt",       readable |-> TRUE,  shingles |-> <<"a">>],
     [path |-> "ab.txt",      readable |-> TRUE,  shingles |-> <<"a", "b">>],
     [path |-> "missing.txt", readable |-> FALSE, shingles |-> << >>]}

\* the arguments <<hashFunctions, bands>> NewDocumentSet is called with, and
\* the similarity thresholds (0.0 and the 0.8 of main)
DSConfigs    == {<<1, 1>>, <<1, 2>>, <<2, 1>>, <<2, 2>>, <<3, 2>>}
DSThresholds == {0, 800}

DSCall(op, docID, shingles, threshold, similarities, similar, err) ==
    [op |-> op, docID |-> docID, shingles |-> shingles, threshold |-> threshold,
     similarities |-> similarities, similar |-> similar, err |-> err]

\* docSet := NewDocumentSet(hashFunctions, bands); the constructor has one
\* result.  The hashes of the third seed, and of the seeds the set does not
\* use, are fixed.
DSInit ==
    /\ \E c \in DSConfigs :
          /\ ds = NewDocumentSet(c[1], c[2])
          /\ mhHash \in {h \in [Tokens \X (1..3) -> SumVals] :
                            \A t \in Tokens, i \in 1..3 :
                                (i > c[1] \/ i = 3) => h[<<t, i>>] = U32(0, 1)}
    /\ dsLast = DSCall("NewDocumentSet", 0, << >>, 0, EmptyMap, << >>, None)
    /\ murmur = None /\ hllHash = None
    /\ bf = None /\ bfAdded = {} /\ bfLast = NoCall
    /\ cms = None /\ cmsTrue = None /\ cmsLast = NoCall /\ cmsOps = 0
    /\ la = None /\ laLog = << >> /\ laTop = None /\ laSimilar = None
    /\ writer = None /\ reader = None /\ fatal = FALSE
    /\ mh = None /\ mhLast = None
    /\ scan = None /\ hll = None /\ hllLast = None
    /\ ttl = None /\ ttlLast = None /\ lru = None /\ lruLast = None
    /\ db = None /\ bk = None /\ wgx = None /\ pool = None /\ fan = None
    /\ mbox = None /\ mon = None /\ sl = None /\ slLast = None

\* a call that left the set as it was (a query, an insertion that failed)
\* is recorded as the last call of a behaviour
DSQueried ==
    \/ dsLast.op \in {"LSH.FindSimilar", "FindSimilar"}
    \/ dsLast.err # None

\* _, err := docSet.AddDocument(path): a file that cannot be opened returns
\* the error before anything is changed
DSAddDocument ==
    \E file \in Files :
        /\ ~DSQueried
        /\ ds.nextID < MaxDocs
        /\ IF file.readable
           THEN /\ ds' = dsAddDocument(ds, file.path, file.shingles)
                /\ dsLast' = DSCall("AddDocument", ds.nextID, file.shingles, 0,
                                    EmptyMap, << >>, None)
           ELSE /\ ds' = ds
                /\ dsLast' = DSCall("AddDocument", 0, << >>, 0, EmptyMap, << >>,
                                    "PathError")
        /\ UNCHANGED <<hashVars, notDS>>

\* similarities := docSet.lsh.FindSimilar(shingles, threshold)
LSHFindSimilar ==
    \E file \in Files, threshold \in DSThresholds :
        /\ ~DSQueried
        /\ file.readable
        /\ dsLast' = DSCall("LSH.FindSimilar", 0, file.shingles, threshold,
                            lshFindSimilar(ds.lsh, file.shingles, threshold), << >>, None)
        /\ UNCHANGED <<ds, hashVars, notDS>>

\* similar := docSet.FindSimilar(docID, threshold); the documents come in
\* the order the range over the map visits them
DSFindSimilar ==
    \E docID \in 0..MaxDocs, threshold \in DSThresholds :
        \E similar \in Orders(dsFindSimilar(ds, docID, threshold)) :
            /\ ~DSQueried
            /\ dsLast' = DSCall("FindSimilar", docID, << >>, threshold, EmptyMap,
                                similar, None)
            /\ UNCHANGED <<ds, hashVars, notDS>>

DSNext == DSAddDocument \/ LSHFindSimilar \/ DSFindSimilar

SpecDS == DSInit /\ [][DSNext]_vars

\* the signature the index computes for the shingles, its chunk of band i
\* (from 1) and the key of that chunk
IndexSignature(shingles) == Signature(ds.lsh.minHash, shingles)

Chunk(signature, i) == SubSeq(signature, (i - 1) * ds.lsh.rows + 1, i * ds.lsh.rows)

\* C21: every inserted id is in exactly one bucket of each of the bands band
\* tables, once, and that bucket is the one keyed by bandToString of the
\* i-th contiguous chunk of rows values of its signature (so two ids with the
\* same i-th chunk share the bucket of band i); a step never removes an id
\* from a bucket or reorders one.
C21_OneBucketPerBand ==
    /\ [](\A id \in DOMAIN ds.docs : \A i \in 1..ds.lsh.bands :
            LET chunk == Chunk(IndexSignature(ds.docs[id].Shingles), i)
                table == ds.lsh.hashTables[i]
            IN  /\ Len(chunk) = ds.lsh.rows
                /\ Len(ds.lsh.hashTables) = ds.lsh.bands
                /\ {key \in DOMAIN table : Occurrences(table[key], id) > 0}
                       = {bandToString(chunk)}
                /\ Occurrences(table[bandToString(chunk)], id) = 1)
    /\ [][\A i \in 1..ds.lsh.bands : \A key \in DOMAIN ds.lsh.hashTables[i] :
            /\ key \in DOMAIN ds'.lsh.hashTables[i]
            /\ Len(ds'.lsh.hashTables[i][key]) >= Len(ds.lsh.hashTables[i][key])
            /\ SubSeq(ds'.lsh.hashTables[i][key], 1, Len(ds.lsh.hashTables[i][key]))
                   = ds.lsh.hashTables[i][key]]_vars

\* two documents were added to an index of two bands and their chunks differ
\* in both bands: the second document went into other buckets than the first
C21_Witness ==
    /\ dsLast.op = "AddDocument" /\ dsLast.err = None
    /\ ds.lsh.bands = 2 /\ ds.lsh.rows = 1
    /\ ds.lsh.numDocuments = 2
    /\ ds.docs[0].Shingles = <<"a">> /\ ds.docs[1].Shingles = <<"a", "b">>
    /\ \A i \in 1..2 :
          /\ Cardinality(DOMAIN ds.lsh.hashTables[i]) = 2
          /\ ds.lsh.hashTables[i][bandToString(Chunk(IndexSignature(<<"a">>), i))] = <<0>>
          /\ ds.lsh.hashTables[i][bandToString(Chunk(IndexSignature(<<"a", "b">>), i))] = <<1>>

\* the inserted ids that share the bucket key of the query in some band
SharingBucket(shingles) ==
    {id \in DOMAIN ds.docs :
        \E i \in 1..ds.lsh.bands :
            bandToString(Chunk(IndexSignature(ds.docs[id].Shingles), i))
                = bandToString(Chunk(IndexSignature(shingles), i))}

\* C22: a query of the index returns exactly the ids that share a bucket key
\* with the query in at least one band (the union of the buckets of the
\* query's band keys), whatever their similarity to the query.
C22_QueryIsBucketUnion ==
    dsLast.op = "LSH.FindSimilar"
        => DOMAIN dsLast.similarities = SharingBucket(dsLast.shingles)

\* C23: the similarity the index reports for a candidate is the estimated
\* Jaccard of the query's signature and the signature of the candidate as it
\* was inserted (the fraction of equal positions), not a fixed value.
C23_StoredSignatureSimilarity ==
    dsLast.op = "LSH.FindSimilar"
        => \A id \in DOMAIN dsLast.similarities :
              LET estimate == Similarity(ds.lsh.minHash,
                                         IndexSignature(dsLast.shingles),
                                         IndexSignature(ds.docs[id].Shingles))
              IN  dsLast.similarities[id].num * estimate.den
                      = estimate.num * dsLast.similarities[id].den

\* C24: construction with bands * rows different from the numHashes of the
\* signatures the set holds fails with a ConfigurationError, so that every
\* constructed index has bands * rows = numHashes.
C24_ConfigurationError ==
    (dsLast.op = "NewDocumentSet"
        /\ ds.lsh.bands * ds.lsh.rows # ds.minHash.numHashes)
        => dsLast.err = "ConfigurationError"

(***************************************************************************)
(* main of the log analysis: the scanner loop over the lines of the log    *)
(* file.  A line is given by its fields, the strings between its single    *)
(* spaces; the texts of a field are taken from a small vocabulary.         *)
(***************************************************************************)
MaxLines == 3      \* lines of the log file

\* strings.Join(words, " ")
RECURSIVE Join(_)
Join(words) ==
    IF Len(words) = 0 THEN ""
    ELSE IF Len(words) = 1 THEN words[1]
    ELSE words[1] \o " " \o Join(Tail(words))

\* strings.SplitN(line, " ", 7): at most 7 parts, the last one the rest
SplitN7(line) ==
    IF Len(line) <= 7 THEN line
    ELSE SubSeq(line, 1, 6) \o <<Join(SubSeq(line, 7, Len(line)))>>

\* strings.Trim(parts[0], "[]")
TrimBrackets(text) ==
    CASE text = "[2023-04-15T10:20:30Z]" -> "2023-04-15T10:20:30Z"
      [] text = "[yesterday]"            -> "yesterday"
      [] OTHER                           -> text

\* time.Parse("2006-01-02T15:04:05Z", text): the times of 2023-04-15, 10:20
TimeParse(text) ==
    IF \E sec \in 0..59 : FormatRFC3339([sec |-> sec, nsec |-> 0]) = text
    THEN [ok |-> TRUE,
          t  |-> [sec  |-> CHOOSE sec \in 0..59 :
                               FormatRFC3339([sec |-> sec, nsec |-> 0]) = text,
                  nsec |-> 0]]
    ELSE [ok |-> FALSE, t |-> [sec |-> 0, nsec |-> 0]]

\* strconv.Atoi(text): the decimal numbers up to 599
Atoi(text) ==
    IF \E n \in 0..599 : FormatInt(n) = text
    THEN [ok |-> TRUE, n |-> CHOOSE n \in 0..599 : FormatInt(n) = text]
    ELSE [ok |-> FALSE, n |-> 0]

\* strings.Trim(parts[6], "\"")
TrimQuotes(text) ==
    CASE text = "\"ok\""       -> "ok"
      [] text = "\"timeout\""  -> "timeout"
      [] OTHER                 -> text

\* ParseLogLine: the entry and whether err is nil
ParseLogLine(line) ==
    LET parts  == SplitN7(line)
        ts     == TimeParse(TrimBrackets(parts[1]))
        status == Atoi(parts[6])
    IN  IF Len(parts) # 7 THEN [ok |-> FALSE, entry |-> ZeroLogEntry]
        ELSE IF ~ts.ok THEN [ok |-> FALSE, entry |-> ZeroLogEntry]
        ELSE IF ~status.ok THEN [ok |-> FALSE, entry |-> ZeroLogEntry]
        ELSE [ok    |-> TRUE,
              entry |-> [Timestamp |-> ts.t, IP |-> parts[2], UserID |-> parts[3],
                         SessionID |-> parts[4], Path |-> parts[5],
                         Status |-> status.n, Message |-> TrimQuotes(parts[7])]]

\* the lines a log file is made of: two well-formed ones (the second an
\* error record), a line of three fields, one with a wrong timestamp, one
\* with a wrong status code, and the empty line
LogLines ==
    {<<"[2023-04-15T10:20:30Z]", "10.0.0.1", "u1", "s1", "/a", "200", "\"ok\"">>,
     <<"[2023-04-15T10:20:30Z]", "10.0.0.1", "u2", "s1", "/a", "500", "\"timeout\"">>,
     <<"[2023-04-15T10:20:30Z]", "10.0.0.1", "u1">>,
     <<"[yesterday]", "10.0.0.1", "u1", "s1", "/a", "200", "\"ok\"">>,
     <<"[2023-04-15T10:20:30Z]", "10.0.0.1", "u1", "s1", "/a", "OK", "\"ok\"">>,
     <<"">>}

\* a parse error that ends the loop instead of going on with the next line
onParseErrorStop(s) == [s EXCEPT !.next = @ + 1, !.printed = @ + 1, !.done = TRUE]

\* if err != nil { fmt.Printf("Error parsing line: ..."); continue }
onParseError(s) == [s EXCEPT !.next = @ + 1, !.printed = @ + 1]

\* linesProcessed++; if entry.Status >= 400 { errorLogs++ }
onEntry(s, entry) ==
    [s EXCEPT !.next = @ + 1,
              !.linesProcessed = @ + 1,
              !.errorLogs = IF entry.Status >= 400 THEN @ + 1 ELSE @]

\* analyzer := NewLogAnalyzer(); file opened; linesProcessed := 0; errorLogs := 0
MainInit ==
    /\ \E n \in 0..MaxLines : \E lines \in [1..n -> LogLines] :
          scan = [lines |-> lines, next |-> 0, linesProcessed |-> 0,
                  errorLogs |-> 0, printed |-> 0, done |-> FALSE]
    /\ la = NewLogAnalyzer
    /\ murmur = DedupApart @@ PathsApart
    /\ hllHash = LAHllHash
    /\ mhHash = MhApart
    /\ laLog = << >>
    /\ laTop = NoTop
    /\ laSimilar = NoSimilar
    /\ bf = None /\ bfAdded = {} /\ bfLast = NoCall
    /\ cms = None /\ cmsTrue = None /\ cmsLast = NoCall /\ cmsOps = 0
    /\ writer = None /\ reader = None /\ fatal = FALSE
    /\ mh = None /\ mhLast = None
    /\ ds = None /\ dsLast = None
    /\ hll = None /\ hllLast = None
    /\ ttl = None /\ ttlLast = None /\ lru = None /\ lruLast = None
    /\ db = None /\ bk = None /\ wgx = None /\ pool = None /\ fan = None
    /\ mbox = None /\ mon = None /\ sl = None /\ slLast = None

\* one turn of  for scanner.Scan() { ... }  on a line that does not parse
ScanMalformed ==
    /\ ~scan.done /\ scan.next < Len(scan.lines)
    /\ ~ParseLogLine(scan.lines[scan.next + 1]).ok
    /\ scan' = onParseError(scan)
    /\ UNCHANGED <<la, laLog, hashVars, notMain>>

\* one turn of the loop on a line that parses: analyzer.ProcessLogEntry(entry)
ScanEntry ==
    LET parsed == ParseLogLine(scan.lines[scan.next + 1])
    IN  /\ ~scan.done /\ scan.next < Len(scan.lines)
        /\ parsed.ok
        /\ la' = processLogEntry(la, parsed.entry)
        /\ laLog' = Append(laLog,
               [entry   |-> parsed.entry,
                dropped |-> deduperTest(la.deduper, entryKey(parsed.entry)),
                est     |-> [p \in LAPaths |-> pcEstimate(la'.pathCounter, p)]])
        /\ scan' = onEntry(scan, parsed.entry)
        /\ UNCHANGED <<hashVars, notMain>>

\* scanner.Scan() returns false at the end of the file
ScanEnd ==
    /\ ~scan.done /\ scan.next = Len(scan.lines)
    /\ scan' = [scan EXCEPT !.done = TRUE]
    /\ UNCHANGED <<la, laLog, hashVars, notMain>>

MainNext == ScanMalformed \/ ScanEntry \/ ScanEnd

SpecMain == MainInit /\ [][MainNext]_vars

\* the entries of the lines that parse among the first n lines, in order
RECURSIVE ValidEntries(_, _)
ValidEntries(lines, n) ==
    IF n = 0 THEN << >>
    ELSE LET parsed == ParseLogLine(lines[n])
         IN  IF parsed.ok THEN Append(ValidEntries(lines, n - 1), parsed.entry)
             ELSE ValidEntries(lines, n - 1)

hllMergeCopy(h, other) ==
    IF h.precision # other.precision
    THEN [h |-> h, err |-> "IncompatibleStructureError"]
    ELSE [h |-> [h EXCEPT !.registers = other.registers], err |-> None]

\* hyperloglog.HyperLogLog.Merge: the precisions must be the same;
\* register[i] = max(self.register[i], other.register[i])
hllMerge(h, other) ==
    IF h.precision # other.precision
    THEN [h |-> h, err |-> "IncompatibleStructureError"]
    ELSE [h   |-> [h EXCEPT !.registers =
                      [i \in DOMAIN h.registers |-> Max(h.registers[i], other.registers[i])]],
          err |-> None]

\* the precisions estimators are built with (14 in NewLogAnalyzer), and the
\* hash bits of an item: the register index, then the bits that are ranked
HllPrecisions == {1, 2}
HllBits == {<<0, 0, 0>>, <<0, 0, 1>>, <<0, 1, 0>>, <<1, 0, 0>>}

HLLCall(op, target, data, err, added) ==
    [op |-> op, target |-> target, data |-> data, err |-> err, added |-> added]

\* a := hyperloglog.New(pa); b := hyperloglog.New(pb)
HLLInit ==
    /\ \E pa, pb \in HllPrecisions : hll = [a |-> hllNew(pa), b |-> hllNew(pb)]
    /\ hllHash \in [Items -> HllBits]
    /\ hllLast = HLLCall("New", "a", "", None, [a |-> {}, b |-> {}])
    /\ murmur = None /\ mhHash = None
    /\ bf = None /\ bfAdded = {} /\ bfLast = NoCall
    /\ cms = None /\ cmsTrue = None /\ cmsLast = NoCall /\ cmsOps = 0
    /\ la = None /\ laLog = << >> /\ laTop = None /\ laSimilar = None
    /\ writer = None /\ reader = None /\ fatal = FALSE
    /\ mh = None /\ mhLast = None
    /\ ds = None /\ dsLast = None
    /\ scan = None
    /\ ttl = None /\ ttlLast = None /\ lru = None /\ lruLast = None
    /\ db = None /\ bk = None /\ wgx = None /\ pool = None /\ fan = None
    /\ mbox = None /\ mon = None /\ sl = None /\ slLast = None

\* a.Add(data) or b.Add(data), as la.userCounter.Add([]byte(entry.UserID))
HLLAdd ==
    \E target \in {"a", "b"}, data \in Items :
        /\ hll' = [hll EXCEPT ![target] = hllAdd(@, data)]
        /\ hllLast' = HLLCall("Add", target, data, None,
                              [hllLast.added EXCEPT ![target] = @ \cup {data}])
        /\ UNCHANGED <<hashVars, notHLL>>

\* err := a.Merge(b)
HLLMerge ==
    LET merged == hllMerge(hll.a, hll.b)
    IN  /\ hll' = [hll EXCEPT !.a = merged.h]
        /\ hllLast' = HLLCall("Merge", "a", "", merged.err,
                              IF merged.err = None
                              THEN [hllLast.added EXCEPT !.a = @ \cup hllLast.added.b]
                              ELSE hllLast.added)
        /\ UNCHANGED <<hashVars, notHLL>>

HLLNext == HLLAdd \/ HLLMerge

SpecHLL == HLLInit /\ [][HLLNext]_vars

\* every register of estimator h2 is at least the register of h1
RegistersGeq(h2, h1) ==
    \A i \in DOMAIN h1.registers : h2.registers[i] >= h1.registers[i]

\* C26: no step lowers a register of an estimator; an Add stores the
\* maximum of the register and the new count, and an Add of an item the
\* estimator already holds leaves all its registers unchanged.
C26_RegistersOnlyIncrease ==
    [][/\ RegistersGeq(hll'.a, hll.a) /\ RegistersGeq(hll'.b, hll.b)
       /\ hllLast'.op = "Add" =>
             LET h    == hll[hllLast'.target]
                 bits == hllHash[hllLast'.data]
                 idx  == hllIndex(bits, h.precision)
             IN  /\ hll'[hllLast'.target].registers[idx]
                        = Max(h.registers[idx], hllRank(bits, h.precision + 1))
                 /\ hllLast'.data \in hllLast.added[hllLast'.target] => hll' = hll]_vars

\* an item was added to an estimator whose register for it already held a
\* larger count from another item, and the register kept that count
C26_Witness ==
    /\ hllLast.op = "Add"
    /\ LET h    == hll[hllLast.target]
           bits == hllHash[hllLast.data]
           idx  == hllIndex(bits, h.precision)
       IN  /\ h.registers[idx] > hllRank(bits, h.precision + 1)
           /\ Cardinality(hllLast.added[hllLast.target]) >= 2

\* C27: Merge of two estimators of different precision fails with an
\* IncompatibleStructureError and changes nothing; otherwise every register
\* of the receiver becomes the maximum of the two registers, the other
\* estimator stays as it was, the result is what the merge in the other
\* direction gives (commutative), and merging again changes nothing
\* (idempotent).
C27_Merge ==
    [][hllLast'.op = "Merge" =>
          IF hll.a.precision # hll.b.precision
          THEN hllLast'.err = "IncompatibleStructureError" /\ hll' = hll
          ELSE /\ hllLast'.err = None
               /\ hll'.b = hll.b
               /\ hll'.a.precision = hll.a.precision
               /\ \A i \in DOMAIN hll.a.registers :
                     hll'.a.registers[i] = Max(hll.a.registers[i], hll.b.registers[i])
               /\ hll'.a.registers = hllMerge(hll.b, hll.a).h.registers
               /\ hllMerge(hll'.a, hll.b).h = hll'.a
               /\ hllMerge(hll.a, hll.a).h = hll.a]_vars

\* a merge succeeded in which one register came from the receiver and
\* another from the other estimator
C27_Witness ==
    /\ hllLast.op = "Merge" /\ hllLast.err = None
    /\ hllLast.added.a # hllLast.added.b
    /\ \E i, j \in DOMAIN hll.a.registers :
          /\ hll.a.registers[i] > hll.b.registers[i]
          /\ hll.a.registers[j] = hll.b.registers[j] /\ hll.b.registers[j] > 0

(***************************************************************************)
(* TTLCache over the skip list.  The skip list is given by its level-0     *)
(* chain, the nodes in the order of less; time.Now() is the clock `now`,   *)
(* in ticks, and durations are scaled down (1 minute and 30 seconds to 2   *)
(* ticks and 1 tick).                                                      *)
(***************************************************************************)
MaxTime == 3       \* last tick of the clock

TTLConfig == [defaultTTL |-> 2, shortTTL |-> 1]

\* the keys in the order of  func(a, b string) bool { return a < b }
CacheKeys   == <<"session:abc123", "user:1001">>
CacheValues == {"token-data", "Alice"}

KeyRank(key) == CHOOSE i \in 1..Len(CacheKeys) : CacheKeys[i] = key

less(a, b) == KeyRank(a) < KeyRank(b)

\* the position of the first node whose key is not less than key (the node
\* current.forward[0] after the search loop), Len + 1 if there is none
RECURSIVE slFind(_, _, _)
slFind(chain, key, i) ==
    IF i <= Len(chain) /\ less(chain[i].key, key) THEN slFind(chain, key, i + 1) ELSE i

\* current != nil && !less(current.key, key) && !less(key, current.key)
slFound(chain, key) ==
    LET i == slFind(chain, key, 1)
    IN  i <= Len(chain) /\ ~less(chain[i].key, key) /\ ~less(key, chain[i].key)

\* SkipList.Insert: the value of an existing node is replaced, a new node is
\* linked in at its place
slInsert(chain, key, value) ==
    LET i == slFind(chain, key, 1)
    IN  IF slFound(chain, key) THEN [chain EXCEPT ![i].value = value]
        ELSE SubSeq(chain, 1, i - 1) \o <<[key |-> key, value |-> value]>>
                 \o SubSeq(chain, i, Len(chain))

\* SkipList.Search: the value and the success flag
slSearch(chain, key) ==
    IF slFound(chain, key)
    THEN [value |-> chain[slFind(chain, key, 1)].value, found |-> TRUE]
    ELSE [value |-> [value |-> "", expiration |-> 0], found |-> FALSE]

\* SkipList.Delete
slDelete(chain, key) ==
    LET i == slFind(chain, key, 1)
    IN  IF slFound(chain, key)
        THEN SubSeq(chain, 1, i - 1) \o SubSeq(chain, i + 1, Len(chain))
        ELSE chain

\* TTLCache.SetWithTTL: expiration := time.Now().Add(ttl)
ttlSetWithTTL(c, key, value, d) ==
    [c EXCEPT !.items = slInsert(@, key, [value |-> value, expiration |-> c.now + d])]

\* TTLCache.Set
ttlSet(c, key, value) == ttlSetWithTTL(c, key, value, c.defaultTTL)

\* time.Now().After(item.expiration)
Expired(c, item) == c.now > item.expiration

\* TTLCache.Get: the cache after the call and the two results
ttlGet(c, key) ==
    LET r == slSearch(c.items, key)
    IN  IF ~r.found THEN [c |-> c, value |-> "", found |-> FALSE]
        ELSE IF Expired(c, r.value)
        THEN [c |-> [c EXCEPT !.items = slDelete(@, key)], value |-> "", found |-> FALSE]
        ELSE [c |-> c, value |-> r.value.value, found |-> TRUE]

\* TTLCache.Delete
ttlDelete(c, key) == [c EXCEPT !.items = slDelete(@, key)]

\* TTLCache.cleanup: keysToDelete := []string{} is never filled;
\* for _, key := range keysToDelete { c.items.Delete(key) }
RECURSIVE slDeleteAll(_, _, _)
slDeleteAll(chain, keys, n) ==
    IF n > Len(keys) THEN chain ELSE slDeleteAll(slDelete(chain, keys[n]), keys, n + 1)

ttlCleanup(c) ==
    LET keysToDelete == << >>
    IN  [c EXCEPT !.items = slDeleteAll(@, keysToDelete, 1)]

TTLCall(op, key, value, found) ==
    [op |-> op, key |-> key, value |-> value, found |-> found]

\* cache := NewTTLCache(defaultTTL, cleanupFreq): an empty skip list, the
\* cleanup goroutine started
TTLInit ==
    /\ ttl = [items |-> << >>, defaultTTL |-> TTLConfig.defaultTTL,
              now |-> 0, stopped |-> FALSE]
    /\ ttlLast = TTLCall("NewTTLCache", "", "", FALSE)
    /\ murmur = None /\ hllHash = None /\ mhHash = None
    /\ bf = None /\ bfAdded = {} /\ bfLast = NoCall
    /\ cms = None /\ cmsTrue = None /\ cmsLast = NoCall /\ cmsOps = 0
    /\ la = None /\ laLog = << >> /\ laTop = None /\ laSimilar = None
    /\ writer = None /\ reader = None /\ fatal = FALSE
    /\ mh = None /\ mhLast = None
    /\ ds = None /\ dsLast = None
    /\ scan = None /\ hll = None /\ hllLast = None
    /\ lru = None /\ lruLast = None
    /\ db = None /\ bk = None /\ wgx = None /\ pool = None /\ fan = None
    /\ mbox = None /\ mon = None /\ sl = None /\ slLast = None

\* cache.Set(key, value)
TTLSet ==
    \E i \in 1..Len(CacheKeys), value \in CacheValues :
        /\ ttl' = ttlSet(ttl, CacheKeys[i], value)
        /\ ttlLast' = TTLCall("Set", CacheKeys[i], value, FALSE)
        /\ UNCHANGED <<hashVars, notTTL>>

\* cache.SetWithTTL(key, value, ttl)
TTLSetWithTTL ==
    \E i \in 1..Len(CacheKeys), value \in CacheValues :
        /\ ttl' = ttlSetWithTTL(ttl, CacheKeys[i], value, TTLConfig.shortTTL)
        /\ ttlLast' = TTLCall("SetWithTTL", CacheKeys[i], value, FALSE)
        /\ UNCHANGED <<hashVars, notTTL>>

\* value, found := cache.Get(key)
TTLGet ==
    \E i \in 1..Len(CacheKeys) :
        LET r == ttlGet(ttl, CacheKeys[i])
        IN  /\ ttl' = r.c
            /\ ttlLast' = TTLCall("Get", CacheKeys[i], r.value, r.found)
            /\ UNCHANGED <<hashVars, notTTL>>

\* cache.Delete(key)
TTLDelete ==
    \E i \in 1..Len(CacheKeys) :
        /\ ttl' = ttlDelete(ttl, CacheKeys[i])
        /\ ttlLast' = TTLCall("Delete", CacheKeys[i], "", FALSE)
        /\ UNCHANGED <<hashVars, notTTL>>

\* cleanupLoop: case <-ticker.C: c.cleanup()
TTLCleanup ==
    /\ ~ttl.stopped
    /\ ttl' = ttlCleanup(ttl)
    /\ ttlLast' = TTLCall("cleanup", "", "", FALSE)
    /\ UNCHANGED <<hashVars, notTTL>>

\* cache.Close(): cleanupLoop returns on <-c.stopCleanup
TTLClose ==
    /\ ~ttl.stopped
    /\ ttl' = [ttl EXCEPT !.stopped = TRUE]
    /\ ttlLast' = TTLCall("Close", "", "", FALSE)
    /\ UNCHANGED <<hashVars, notTTL>>

\* time passes
TTLTick ==
    /\ ttl.now < MaxTime
    /\ ttl' = [ttl EXCEPT !.now = @ + 1]
    /\ ttlLast' = TTLCall("tick", "", "", FALSE)
    /\ UNCHANGED <<hashVars, notTTL>>

TTLNext ==
    \/ TTLSet \/ TTLSetWithTTL \/ TTLGet \/ TTLDelete
    \/ TTLCleanup \/ TTLClose \/ TTLTick

SpecTTL == TTLInit /\ [][TTLNext]_vars

\* C28: right after a cleanup pass no entry whose expiration time has
\* passed is left in the skip list.
C28_CleanupRemovesExpired ==
    ttlLast.op = "cleanup"
        => \A i \in 1..Len(ttl.items) : ~Expired(ttl, ttl.items[i].value)

(***************************************************************************)
(* LRUCache, in its two versions: chapter08/kvstore.go (no lock, evicts    *)
(* when Len() == cap and Back() is not nil) and the cache of the SQLite    *)
(* backend (a mutex around every call, evicts when Len() >= cap).  The     *)
(* list holds the entries front first; a list element is named by the key  *)
(* of its entry, which never changes, and data maps a key to its element.  *)
(***************************************************************************)
MaxCap == 2        \* largest capacity a cache is created with

LRUKeys   == {"a", "b", "c"}
LRUValues == {"1", "2"}

\* NewLRU(cap)
NewLRU(version, cap) ==
    [version |-> version, cap |-> cap, list |-> << >>, data |-> EmptyMap,
     panicked |-> FALSE]

\* the position of element e in the list
ElementAt(list, e) == CHOOSE i \in 1..Len(list) : list[i].key = e

\* list.MoveToFront(e)
MoveToFront(list, e) ==
    LET i == ElementAt(list, e)
    IN  <<list[i]>> \o SubSeq(list, 1, i - 1) \o SubSeq(list, i + 1, Len(list))

\* e.Value = entry{k, v}
SetValue(list, e, k, v) == [list EXCEPT ![ElementAt(list, e)] = [key |-> k, val |-> v]]

\* delete(c.data, key)
mapDelete(m, key) == [x \in (DOMAIN m) \ {key} |-> m[x]]

\* LRUCache.Get: the cache after the call and the two results
lruGet(c, k) ==
    IF k \in DOMAIN c.data
    THEN LET e == c.data[k]
         IN  [c   |-> [c EXCEPT !.list = MoveToFront(@, e)],
              val |-> c.list[ElementAt(c.list, e)].val, ok |-> TRUE]
    ELSE [c |-> c, val |-> "", ok |-> FALSE]

\* e := c.list.PushFront(entry{k, v}); c.data[k] = e
lruPush(c, k, v) ==
    [c EXCEPT !.list = <<[key |-> k, val |-> v]>> \o @,
              !.data = mapPut(@, k, k)]

\* old := c.list.Back(); c.list.Remove(old); delete(c.data, old.Value.(entry).key)
lruEvict(c) ==
    [c EXCEPT !.list = SubSeq(@, 1, Len(@) - 1),
              !.data = mapDelete(@, c.list[Len(c.list)].key)]

\* LRUCache.Set of kvstore.go: if c.list.Len() == c.cap { if old != nil { ... } }
lruSetKV(c, k, v) ==
    IF k \in DOMAIN c.data
    THEN [c EXCEPT !.list = SetValue(MoveToFront(@, c.data[k]), c.data[k], k, v)]
    ELSE IF Len(c.list) = c.cap
         THEN IF Len(c.list) > 0 THEN lruPush(lruEvict(c), k, v) ELSE lruPush(c, k, v)
         ELSE lruPush(c, k, v)

\* LRUCache.Set of the backend: if c.list.Len() >= c.cap { ... } without the
\* nil test; c.list.Remove(nil) dereferences nil and panics
lruSetBackend(c, k, v) ==
    IF k \in DOMAIN c.data
    THEN [c EXCEPT !.list = SetValue(MoveToFront(@, c.data[k]), c.data[k], k, v)]
    ELSE IF Len(c.list) >= c.cap
         THEN IF Len(c.list) > 0 THEN lruPush(lruEvict(c), k, v)
              ELSE [c EXCEPT !.panicked = TRUE]
         ELSE lruPush(c, k, v)

lruSet(c, k, v) ==
    IF c.version = "kvstore" THEN lruSetKV(c, k, v) ELSE lruSetBackend(c, k, v)

\* the keys in the order of their last touch, the latest first
Touch(touched, k) == <<k>> \o SelectSeq(touched, LAMBDA x : x # k)

LRUCall(op, key, val, ok, touched) ==
    [op |-> op, key |-> key, val |-> val, ok |-> ok, touched |-> touched]

\* cache := NewLRU(cap)
LRUInit ==
    /\ \E version \in {"kvstore", "backend"}, cap \in 0..MaxCap :
          lru = NewLRU(version, cap)
    /\ lruLast = LRUCall("NewLRU", "", "", FALSE, << >>)
    /\ murmur = None /\ hllHash = None /\ mhHash = None
    /\ bf = None /\ bfAdded = {} /\ bfLast = NoCall
    /\ cms = None /\ cmsTrue = None /\ cmsLast = NoCall /\ cmsOps = 0
    /\ la = None /\ laLog = << >> /\ laTop = None /\ laSimilar = None
    /\ writer = None /\ reader = None /\ fatal = FALSE
    /\ mh = None /\ mhLast = None
    /\ ds = None /\ dsLast = None
    /\ scan = None /\ hll = None /\ hllLast = None
    /\ ttl = None /\ ttlLast = None
    /\ db = None /\ bk = None /\ wgx = None /\ pool = None /\ fan = None
    /\ mbox = None /\ mon = None /\ sl = None /\ slLast = None

\* val, ok := cache.Get(k); a hit is a touch of the key
LRUGet ==
    \E k \in LRUKeys :
        LET r == lruGet(lru, k)
        IN  /\ ~lru.panicked
            /\ lru' = r.c
            /\ lruLast' = LRUCall("Get", k, r.val, r.ok,
                                  IF r.ok THEN Touch(lruLast.touched, k)
                                  ELSE lruLast.touched)
            /\ UNCHANGED <<hashVars, notLRU>>

\* cache.Set(k, v)
LRUSet ==
    \E k \in LRUKeys, v \in LRUValues :
        /\ ~lru.panicked
        /\ lru' = lruSet(lru, k, v)
        /\ lruLast' = LRUCall("Set", k, v, FALSE, Touch(lruLast.touched, k))
        /\ UNCHANGED <<hashVars, notLRU>>

LRUNext == LRUGet \/ LRUSet

SpecLRU == LRUInit /\ [][LRUNext]_vars

\* the keys of the entries of a list
ListKeys(list) == {list[i].key : i \in 1..Len(list)}

\* C29: the cache never holds more than cap entries, and the key map and
\* the recency list hold exactly the same keys, each key once.
C29_FixedSize ==
    /\ Len(lru.list) <= lru.cap
    /\ DOMAIN lru.data = ListKeys(lru.list)
    /\ Cardinality(ListKeys(lru.list)) = Len(lru.list)

\* the key of `keys` whose last touch is the oldest
LeastRecent(touched, keys) ==
    touched[CHOOSE i \in 1..Len(touched) :
                /\ touched[i] \in keys
                /\ \A j \in (i + 1)..Len(touched) : touched[j] \notin keys]

\* the value the cache holds for a key
CachedValue(c, k) == c.list[ElementAt(c.list, k)].val

\* C30: a Set of a new key into a full cache removes exactly one key, the
\* one least recently touched by a successful Get or by a Set, and stores
\* the new key; a Set of an existing key updates its value, makes it the
\* most recent and evicts nothing.
C30_EvictionOrder ==
    [][lruLast'.op = "Set" =>
          LET k       == lruLast'.key
              keys    == ListKeys(lru.list)
              newKeys == ListKeys(lru'.list)
          IN  /\ (k \notin keys /\ Len(lru.list) >= lru.cap)
                    => /\ keys # {}
                       /\ newKeys = (keys \ {LeastRecent(lruLast.touched, keys)}) \cup {k}
                       /\ CachedValue(lru', k) = lruLast'.val
              /\ k \in keys
                    => /\ newKeys = keys
                       /\ CachedValue(lru', k) = lruLast'.val
                       /\ lru'.list[1].key = k
                       /\ LeastRecent(lruLast'.touched, newKeys)
                              = lru'.list[Len(lru'.list)].key]_vars

(***************************************************************************)
(* LRUSQLiteBackend (part_000): a write-through cache in front of the kv   *)
(* table.  Goroutines call Set and Get concurrently; the database          *)
(* serialises its statements and LRUCache.mu serialises the cache calls,   *)
(* but nothing spans the two, so a goroutine can be preempted between      *)
(* them.                                                                   *)
(***************************************************************************)
MaxCalls == 2      \* backend calls one goroutine makes

\* everything but the cache, the table and the goroutines of the backend
basicVars == <<hashVars, bloomVars, cmsVars, laVars, concVars, mhVars, dsVars,
               scan, hllVars, ttlVars>>
notBackend == <<basicVars, lruLast, wgx, pool, fan, mbox, mon, sl, slLast>>

Goroutines == {1, 2}
BKKeys     == {"a", "b"}

\* a goroutine between two calls, with the number of calls it has made
BKIdle(n) == [pc |-> "idle", op |-> "", key |-> "", val |-> "", calls |-> n]

\* backend := NewLRUSQLiteBackend(dbPath, cacheSize), the table empty
BackendInit ==
    /\ \E cacheSize \in 1..MaxCap : lru = NewLRU("backend", cacheSize)
    /\ lruLast = None
    /\ db = EmptyMap
    /\ bk = [g \in Goroutines |-> BKIdle(0)]
    /\ murmur = None /\ hllHash = None /\ mhHash = None
    /\ bf = None /\ bfAdded = {} /\ bfLast = NoCall
    /\ cms = None /\ cmsTrue = None /\ cmsLast = NoCall /\ cmsOps = 0
    /\ la = None /\ laLog = << >> /\ laTop = None /\ laSimilar = None
    /\ writer = None /\ reader = None /\ fatal = FALSE
    /\ mh = None /\ mhLast = None
    /\ ds = None /\ dsLast = None
    /\ scan = None /\ hll = None /\ hllLast = None
    /\ ttl = None /\ ttlLast = None
    /\ wgx = None /\ pool = None /\ fan = None
    /\ mbox = None /\ mon = None /\ sl = None /\ slLast = None

\* go backend.Set(k, v) / go backend.Get(k): the call starts
BKCall ==
    \E g \in Goroutines, op \in {"Set", "Get"}, k \in BKKeys, v \in LRUValues :
        /\ bk[g].pc = "idle"
        /\ bk[g].calls < MaxCalls
        /\ bk' = [bk EXCEPT ![g] = [pc    |-> IF op = "Set" THEN "exec" ELSE "cacheGet",
                                    op    |-> op, key |-> k,
                                    val   |-> IF op = "Set" THEN v ELSE "",
                                    calls |-> bk[g].calls + 1]]
        /\ UNCHANGED <<lru, db, notBackend>>

\* Set: _, err := s.db.Exec("INSERT OR REPLACE ..."); if err != nil { return err }
BKExec ==
    \E g \in Goroutines, err \in BOOLEAN :
        /\ bk[g].pc = "exec"
        /\ IF err
           THEN /\ bk' = [bk EXCEPT ![g] = BKIdle(bk[g].calls)]
                /\ db' = db
           ELSE /\ db' = mapPut(db, bk[g].key, bk[g].val)
                /\ bk' = [bk EXCEPT ![g].pc = "cacheSet"]
        /\ UNCHANGED <<lru, notBackend>>

\* Set: s.cache.Set(k, v); return nil
\* Get: s.cache.Set(k, val); return val, nil
BKCacheSet ==
    \E g \in Goroutines :
        /\ bk[g].pc = "cacheSet"
        /\ lru' = lruSetBackend(lru, bk[g].key, bk[g].val)
        /\ bk' = [bk EXCEPT ![g] = BKIdle(bk[g].calls)]
        /\ UNCHANGED <<db, notBackend>>

\* Get: if val, ok := s.cache.Get(k); ok { return val, nil }
BKCacheGet ==
    \E g \in Goroutines :
        LET r == lruGet(lru, bk[g].key)
        IN  /\ bk[g].pc = "cacheGet"
            /\ lru' = r.c
            /\ bk' = [bk EXCEPT ![g] = IF r.ok THEN BKIdle(bk[g].calls)
                                       ELSE [@ EXCEPT !.pc = "query"]]
            /\ UNCHANGED <<db, notBackend>>

\* Get: err := s.db.QueryRow("SELECT val ...").Scan(&val); if err != nil { return }
BKQuery ==
    \E g \in Goroutines, err \in BOOLEAN :
        /\ bk[g].pc = "query"
        /\ bk' = [bk EXCEPT ![g] =
                     IF err \/ bk[g].key \notin DOMAIN db
                     THEN BKIdle(bk[g].calls)
                     ELSE [@ EXCEPT !.pc = "cacheSet", !.val = db[bk[g].key]]]
        /\ UNCHANGED <<lru, db, notBackend>>

BackendNext == BKCall \/ BKExec \/ BKCacheSet \/ BKCacheGet \/ BKQuery

SpecBackend == BackendInit /\ [][BackendNext]_vars

\* every call that was started has returned
BKQuiescent == \A g \in Goroutines : bk[g].pc = "idle"

\* C31: once every concurrent Set and Get has completed, each key present
\* in the cache holds the value of the database row for that key.
C31_CacheCoherent ==
    BKQuiescent =>
        \A k \in DOMAIN lru.data :
            /\ k \in DOMAIN db
            /\ CachedValue(lru, k) = db[k]

(***************************************************************************)
(* The WaitGroup example (chapter07/waitgroups-channels.go): main fills    *)
(* and closes the jobs channel, starts the workers and waits; each worker  *)
(* calls wg.Add(1) itself, inside its goroutine.                           *)
(***************************************************************************)
NumJobs    == 2    \* jobs main puts on the channel
MaxWorkers == 3    \* largest numWorkers drawn

notWG == <<basicVars, lruVars, db, bk, pool, fan, mbox, mon, sl, slLast>>

\* the first n positive integers, in order
Upto(n) == [j \in 1..n |-> j]

\* after `close(jobs)` and `numWorkers := rand.Intn(4) + 2`
WGInit ==
    /\ \E numWorkers \in 2..MaxWorkers :
          wgx = [jobs       |-> Upto(NumJobs),
                 counter    |-> 0,
                 numWorkers |-> numWorkers,
                 main       |-> "spawn",
                 i          |-> 1,
                 worker     |-> [id \in 1..numWorkers |-> "unborn"],
                 processed  |-> << >>,
                 printed    |-> {}]
    /\ murmur = None /\ hllHash = None /\ mhHash = None
    /\ bf = None /\ bfAdded = {} /\ bfLast = NoCall
    /\ cms = None /\ cmsTrue = None /\ cmsLast = NoCall /\ cmsOps = 0
    /\ la = None /\ laLog = << >> /\ laTop = None /\ laSimilar = None
    /\ writer = None /\ reader = None /\ fatal = FALSE
    /\ mh = None /\ mhLast = None
    /\ ds = None /\ dsLast = None
    /\ scan = None /\ hll = None /\ hllLast = None
    /\ ttl = None /\ ttlLast = None /\ lru = None /\ lruLast = None
    /\ db = None /\ bk = None /\ pool = None /\ fan = None
    /\ mbox = None /\ mon = None /\ sl = None /\ slLast = None

\* the process lives until main returns
WGRunning == wgx.main # "done"

\* for i := 1; i <= numWorkers; i++ { go func(id int) {...}(i) }
WGSpawn ==
    /\ wgx.main = "spawn"
    /\ wgx' = IF wgx.i <= wgx.numWorkers
              THEN [wgx EXCEPT !.worker[wgx.i] = "add", !.i = @ + 1]
              ELSE [wgx EXCEPT !.main = "wait"]
    /\ UNCHANGED notWG

\* wg.Wait(); fmt.Println("All workers done.")
WGWait ==
    /\ wgx.main = "wait"
    /\ wgx.counter = 0
    /\ wgx' = [wgx EXCEPT !.main = "done"]
    /\ UNCHANGED notWG

\* wg.Add(1); defer wg.Done()
WGAdd ==
    \E id \in 1..wgx.numWorkers :
        /\ WGRunning
        /\ wgx.worker[id] = "add"
        /\ wgx' = [wgx EXCEPT !.counter = @ + 1, !.worker[id] = "range"]
        /\ UNCHANGED notWG

\* for job := range jobs { fmt.Printf("Worker %d processing job %d\n", id, job) }
WGProcess ==
    \E id \in 1..wgx.numWorkers :
        /\ WGRunning
        /\ wgx.worker[id] = "range"
        /\ wgx.jobs # << >>
        /\ wgx' = [wgx EXCEPT !.jobs = Tail(@),
                              !.processed = Append(@, Head(wgx.jobs))]
        /\ UNCHANGED notWG

\* the channel is closed and drained: fmt.Printf("Worker %d done\n", id)
WGPrintDone ==
    \E id \in 1..wgx.numWorkers :
        /\ WGRunning
        /\ wgx.worker[id] = "range"
        /\ wgx.jobs = << >>
        /\ wgx' = [wgx EXCEPT !.printed = @ \cup {id}, !.worker[id] = "deferred"]
        /\ UNCHANGED notWG

\* the deferred wg.Done()
WGDone ==
    \E id \in 1..wgx.numWorkers :
        /\ WGRunning
        /\ wgx.worker[id] = "deferred"
        /\ wgx' = [wgx EXCEPT !.counter = @ - 1, !.worker[id] = "exited"]
        /\ UNCHANGED notWG

WGNext == WGSpawn \/ WGWait \/ WGAdd \/ WGProcess \/ WGPrintDone \/ WGDone

SpecWG == WGInit /\ [][WGNext]_vars

\* C32: "All workers done." is printed only after every job has been
\* processed and every started worker has printed that it is done.
C32_WaitCoversWorkers ==
    wgx.main = "done" =>
        /\ Len(wgx.processed) = NumJobs
        /\ wgx.printed = 1..wgx.numWorkers

(***************************************************************************)
(* runPool (chapter07/taskpool.go): the caller starts the workers, sends   *)
(* every job on the unbuffered channel, closes it and waits.               *)
(***************************************************************************)
MaxJobs == 3       \* longest job list handed to runPool or fanOutFanIn

notPool == <<basicVars, lruVars, db, bk, wgx, fan, mbox, mon, sl, slLast>>

JobNames == {"job1", "job2"}
JobLists == UNION {[1..n -> JobNames] : n \in 0..MaxJobs}

\* close(jobsCh) without the close: the caller goes on to wg.Wait()
poolSkipClose(p) == [p EXCEPT !.main = "wait"]

\* close(jobsCh)
poolClose(p) == [p EXCEPT !.closed = TRUE, !.main = "wait"]

\* runPool(jobs, workers) is entered
PoolInit ==
    /\ \E jobs \in JobLists, workers \in 1..MaxWorkers :
          pool = [jobs      |-> jobs,
                  workers   |-> workers,
                  counter   |-> 0,
                  closed    |-> FALSE,
                  main      |-> "spawn",
                  i         |-> 0,
                  next      |-> 1,
                  worker    |-> [id \in 0..(workers - 1) |-> [pc |-> "unborn", job |-> 0]],
                  processed |-> [n \in 1..Len(jobs) |-> << >>]]
    /\ murmur = None /\ hllHash = None /\ mhHash = None
    /\ bf = None /\ bfAdded = {} /\ bfLast = NoCall
    /\ cms = None /\ cmsTrue = None /\ cmsLast = NoCall /\ cmsOps = 0
    /\ la = None /\ laLog = << >> /\ laTop = None /\ laSimilar = None
    /\ writer = None /\ reader = None /\ fatal = FALSE
    /\ mh = None /\ mhLast = None
    /\ ds = None /\ dsLast = None
    /\ scan = None /\ hll = None /\ hllLast = None
    /\ ttl = None /\ ttlLast = None /\ lru = None /\ lruLast = None
    /\ db = None /\ bk = None /\ wgx = None /\ fan = None
    /\ mbox = None /\ mon = None /\ sl = None /\ slLast = None

\* for i := 0; i < workers; i++ { wg.Add(1); go func(id int) {...}(i) }
PoolSpawn ==
    /\ pool.main = "spawn"
    /\ pool' = IF pool.i < pool.workers
               THEN [pool EXCEPT !.counter = @ + 1,
                                 !.worker[pool.i].pc = "range",
                                 !.i = @ + 1]
               ELSE [pool EXCEPT !.main = "send"]
    /\ UNCHANGED notPool

\* jobsCh <- job meets a worker's `for job := range jobsCh`
PoolSend ==
    \E id \in DOMAIN pool.worker :
        /\ pool.main = "send"
        /\ pool.next <= Len(pool.jobs)
        /\ pool.worker[id].pc = "range"
        /\ pool' = [pool EXCEPT !.next = @ + 1,
                                !.worker[id] = [pc |-> "process", job |-> pool.next]]
        /\ UNCHANGED notPool

\* process(id, job); processed[n] lists the calls made for job number n
PoolProcess ==
    \E id \in DOMAIN pool.worker :
        /\ pool.worker[id].pc = "process"
        /\ pool' = [pool EXCEPT
                        !.processed[pool.worker[id].job] =
                            Append(@, [id  |-> id,
                                       job |-> pool.jobs[pool.worker[id].job]]),
                        !.worker[id] = [pc |-> "range", job |-> 0]]
        /\ UNCHANGED notPool

\* the range over jobs has ended: close(jobsCh)
PoolClose ==
    /\ pool.main = "send"
    /\ pool.next > Len(pool.jobs)
    /\ pool' = poolClose(pool)
    /\ UNCHANGED notPool

\* a worker's range ends on the closed channel; the deferred wg.Done() runs
PoolWorkerExit ==
    \E id \in DOMAIN pool.worker :
        /\ pool.worker[id].pc = "range"
        /\ pool.closed
        /\ pool' = [pool EXCEPT !.counter = @ - 1, !.worker[id].pc = "exited"]
        /\ UNCHANGED notPool

\* wg.Wait() returns and so does runPool
PoolWait ==
    /\ pool.main = "wait"
    /\ pool.counter = 0
    /\ pool' = [pool EXCEPT !.main = "returned"]
    /\ UNCHANGED notPool

PoolNext ==
    PoolSpawn \/ PoolSend \/ PoolProcess \/ PoolClose \/ PoolWorkerExit \/ PoolWait

SpecPool == PoolInit /\ [][PoolNext]_vars

\* every goroutine that can take a step is eventually scheduled
SpecPoolFair ==
    /\ SpecPool
    /\ WF_vars(PoolSpawn) /\ WF_vars(PoolSend) /\ WF_vars(PoolProcess)
    /\ WF_vars(PoolClose) /\ WF_vars(PoolWorkerExit) /\ WF_vars(PoolWait)

\* C33: runPool eventually returns, and when it has returned every job has
\* been processed exactly once by some worker and all workers have exited.
C33_PoolCompletes ==
    /\ <>(pool.main = "returned")
    /\ [](pool.main = "returned" =>
            /\ \A n \in 1..Len(pool.jobs) :
                   /\ Len(pool.processed[n]) = 1
                   /\ pool.processed[n][1].job = pool.jobs[n]
                   /\ pool.processed[n][1].id \in DOMAIN pool.worker
            /\ \A id \in DOMAIN pool.worker : pool.worker[id].pc = "exited")

\* runPool has returned after two workers shared a list of three jobs
C33_Witness ==
    /\ pool.main = "returned"
    /\ Len(pool.jobs) = 3
    /\ \E x, y \in 1..3 : pool.processed[x][1].id # pool.processed[y][1].id

(***************************************************************************)
(* fanOutFanIn (part_004): workers read jobCh and write resultCh, both     *)
(* unbuffered; one goroutine feeds the jobs and closes jobCh, another      *)
(* waits for the workers and closes resultCh, and the caller collects.     *)
(***************************************************************************)
notFan == <<basicVars, lruVars, db, bk, wgx, pool, mbox, mon, sl, slLast>>

JobInts    == {1, 2}
IntJobLists == UNION {[1..n -> JobInts] : n \in 0..MaxJobs}

\* fanOutFanIn(jobs, workerCount) is entered
FanInit ==
    /\ \E jobs \in IntJobLists, workerCount \in 0..MaxWorkers :
          fan = [jobs         |-> jobs,
                 workerCount  |-> workerCount,
                 counter      |-> 0,
                 main         |-> "spawn",
                 i            |-> 0,
                 feeder       |-> "unborn",
                 next         |-> 1,
                 jobClosed    |-> FALSE,
                 closer       |-> "unborn",
                 resultClosed |-> FALSE,
                 worker       |-> [id \in 1..workerCount |-> [pc |-> "unborn", result |-> 0]],
                 results      |-> << >>,
                 panicked     |-> FALSE]
    /\ murmur = None /\ hllHash = None /\ mhHash = None
    /\ bf = None /\ bfAdded = {} /\ bfLast = NoCall
    /\ cms = None /\ cmsTrue = None /\ cmsLast = NoCall /\ cmsOps = 0
    /\ la = None /\ laLog = << >> /\ laTop = None /\ laSimilar = None
    /\ writer = None /\ reader = None /\ fatal = FALSE
    /\ mh = None /\ mhLast = None
    /\ ds = None /\ dsLast = None
    /\ scan = None /\ hll = None /\ hllLast = None
    /\ ttl = None /\ ttlLast = None /\ lru = None /\ lruLast = None
    /\ db = None /\ bk = None /\ wgx = None /\ pool = None
    /\ mbox = None /\ mon = None /\ sl = None /\ slLast = None

\* for i := 0; i < workerCount; i++ { id := i + 1; wg.Add(1); go func(workerID int) {...}(id) }
FanSpawn ==
    /\ fan.main = "spawn"
    /\ ~fan.panicked
    /\ fan' = IF fan.i < fan.workerCount
              THEN [fan EXCEPT !.counter = @ + 1,
                               !.worker[fan.i + 1].pc = "range",
                               !.i = @ + 1]
              ELSE [fan EXCEPT !.main = "goFeed"]
    /\ UNCHANGED notFan

\* go func() { for _, job := range jobs {...}; close(jobCh) }()
FanGoFeed ==
    /\ fan.main = "goFeed"
    /\ ~fan.panicked
    /\ fan' = [fan EXCEPT !.feeder = "feed", !.main = "goClose"]
    /\ UNCHANGED notFan

\* go func() { wg.Wait(); close(resultCh) }()
FanGoClose ==
    /\ fan.main = "goClose"
    /\ ~fan.panicked
    /\ fan' = [fan EXCEPT !.closer = "wait", !.main = "collect"]
    /\ UNCHANGED notFan

\* jobCh <- job meets a worker's `for job := range jobCh`; result := job * 2
FanFeed ==
    \E id \in DOMAIN fan.worker :
        /\ fan.feeder = "feed"
        /\ ~fan.panicked
        /\ fan.next <= Len(fan.jobs)
        /\ fan.worker[id].pc = "range"
        /\ fan' = [fan EXCEPT !.next = @ + 1,
                              !.worker[id] = [pc |-> "send",
                                              result |-> fan.jobs[fan.next] * 2]]
        /\ UNCHANGED notFan

\* close(jobCh)
FanCloseJobs ==
    /\ fan.feeder = "feed"
    /\ ~fan.panicked
    /\ fan.next > Len(fan.jobs)
    /\ fan' = [fan EXCEPT !.jobClosed = TRUE, !.feeder = "exited"]
    /\ UNCHANGED notFan

\* resultCh <- result meets the caller's `for res := range resultCh`;
\* a send on a closed channel panics
FanSendResult ==
    \E id \in DOMAIN fan.worker :
        /\ fan.worker[id].pc = "send"
        /\ ~fan.panicked
        /\ IF fan.resultClosed
           THEN fan' = [fan EXCEPT !.panicked = TRUE]
           ELSE /\ fan.main = "collect"
                /\ fan' = [fan EXCEPT !.results = Append(@, fan.worker[id].result),
                                      !.worker[id] = [pc |-> "range", result |-> 0]]
        /\ UNCHANGED notFan

\* a worker's range ends on the closed jobCh; the deferred wg.Done() runs
FanWorkerExit ==
    \E id \in DOMAIN fan.worker :
        /\ fan.worker[id].pc = "range"
        /\ ~fan.panicked
        /\ fan.jobClosed
        /\ fan' = [fan EXCEPT !.counter = @ - 1, !.worker[id].pc = "exited"]
        /\ UNCHANGED notFan

\* wg.Wait() returns
FanWait ==
    /\ fan.closer = "wait"
    /\ ~fan.panicked
    /\ fan.counter = 0
    /\ fan' = [fan EXCEPT !.closer = "close"]
    /\ UNCHANGED notFan

\* close(resultCh)
FanCloseResults ==
    /\ fan.closer = "close"
    /\ ~fan.panicked
    /\ fan' = [fan EXCEPT !.resultClosed = TRUE, !.closer = "exited"]
    /\ UNCHANGED notFan

\* the caller's range ends on the closed resultCh: return results
FanReturn ==
    /\ fan.main = "collect"
    /\ ~fan.panicked
    /\ fan.resultClosed
    /\ fan' = [fan EXCEPT !.main = "returned"]
    /\ UNCHANGED notFan

FanNext ==
    \/ FanSpawn \/ FanGoFeed \/ FanGoClose \/ FanFeed \/ FanCloseJobs
    \/ FanSendResult \/ FanWorkerExit \/ FanWait \/ FanCloseResults \/ FanReturn

SpecFan == FanInit /\ [][FanNext]_vars

\* every goroutine that can take a step is eventually scheduled
SpecFanFair ==
    /\ SpecFan
    /\ WF_vars(FanSpawn) /\ WF_vars(FanGoFeed) /\ WF_vars(FanGoClose)
    /\ WF_vars(FanFeed) /\ WF_vars(FanCloseJobs) /\ WF_vars(FanSendResult)
    /\ WF_vars(FanWorkerExit) /\ WF_vars(FanWait) /\ WF_vars(FanCloseResults)
    /\ WF_vars(FanReturn)

\* the results hold one job*2 per submitted job, as a multiset
OneResultPerJob(f) ==
    /\ Len(f.results) = Len(f.jobs)
    /\ \A v \in {2 * j : j \in JobInts} :
          Occurrences(f.results, v) = Cardinality({n \in 1..Len(f.jobs) : f.jobs[n] * 2 = v})

\* C34: fanOutFanIn eventually returns, the returned list holds exactly one
\* result job*2 per submitted job, resultCh is closed only after every
\* worker is done, and no worker sends on the closed channel.
C34_FanOutFanIn ==
    /\ <>(fan.main = "returned")
    /\ [](fan.main = "returned" => OneResultPerJob(fan))
    /\ [](fan.resultClosed => \A id \in DOMAIN fan.worker : fan.worker[id].pc = "exited")
    /\ [](~fan.panicked)

(***************************************************************************)
(* mailbox (chapter06/mailbox-buffer.go): a select loop over the context,  *)
(* the input channel and a ticker, which batches messages for flush.       *)
(***************************************************************************)
MaxMsgs  == 5      \* messages the sender offers on the input channel
maxBatch == 3

notMbox == <<basicVars, lruVars, db, bk, wgx, pool, fan, mon, sl, slLast>>

\* case <-ctx.Done() without the flush of the pending batch
mboxDoneDrop(m) == [m EXCEPT !.pc = "returned"]

\* case <-ctx.Done(): if len(batch) > 0 { flush(batch) }; return
mboxDone(m) ==
    IF Len(m.batch) > 0
    THEN [m EXCEPT !.flushed = Append(@, m.batch), !.cause = "done", !.pc = "returned"]
    ELSE [m EXCEPT !.pc = "returned"]

\* case msg := <-in: batch = append(batch, msg);
\* if len(batch) >= maxBatch { flush(batch); batch = nil }
mboxReceive(m, msg) ==
    LET batch == Append(m.batch, msg)
    IN  IF Len(batch) >= maxBatch
        THEN [m EXCEPT !.flushed = Append(@, batch), !.cause = "full", !.batch = << >>]
        ELSE [m EXCEPT !.batch = batch]

\* case <-ticker.C: if len(batch) > 0 { flush(batch); batch = nil }
mboxTick(m) ==
    IF Len(m.batch) > 0
    THEN [m EXCEPT !.flushed = Append(@, m.batch), !.cause = "tick", !.batch = << >>]
    ELSE m

\* go mailbox(ctx, in, flush), before the first select
MboxInit ==
    /\ mbox = [pc        |-> "select",
               cancelled |-> FALSE,
               sent      |-> 0,
               received  |-> << >>,
               batch     |-> << >>,
               flushed   |-> << >>,
               cause     |-> ""]
    /\ murmur = None /\ hllHash = None /\ mhHash = None
    /\ bf = None /\ bfAdded = {} /\ bfLast = NoCall
    /\ cms = None /\ cmsTrue = None /\ cmsLast = NoCall /\ cmsOps = 0
    /\ la = None /\ laLog = << >> /\ laTop = None /\ laSimilar = None
    /\ writer = None /\ reader = None /\ fatal = FALSE
    /\ mh = None /\ mhLast = None
    /\ ds = None /\ dsLast = None
    /\ scan = None /\ hll = None /\ hllLast = None
    /\ ttl = None /\ ttlLast = None /\ lru = None /\ lruLast = None
    /\ db = None /\ bk = None /\ wgx = None /\ pool = None /\ fan = None
    /\ mon = None /\ sl = None /\ slLast = None

\* the context's deadline passes or cancel() is called
MboxCancel ==
    /\ ~mbox.cancelled
    /\ mbox' = [mbox EXCEPT !.cancelled = TRUE]
    /\ UNCHANGED notMbox

\* the select takes ctx.Done()
MboxDone ==
    /\ mbox.pc = "select"
    /\ mbox.cancelled
    /\ mbox' = mboxDone(mbox)
    /\ UNCHANGED notMbox

\* the sender's `in <- Message{...}` meets the select's receive
MboxReceive ==
    /\ mbox.pc = "select"
    /\ mbox.sent < MaxMsgs
    /\ mbox' = [mboxReceive(mbox, mbox.sent + 1) EXCEPT
                    !.sent = @ + 1, !.received = Append(@, mbox.sent + 1)]
    /\ UNCHANGED notMbox

\* the select takes a tick
MboxTick ==
    /\ mbox.pc = "select"
    /\ mbox' = mboxTick(mbox)
    /\ UNCHANGED notMbox

MboxNext == MboxCancel \/ MboxDone \/ MboxReceive \/ MboxTick

SpecMbox == MboxInit /\ [][MboxNext]_vars

\* the batches of a list of batches, one after the other
RECURSIVE Flatten(_)
Flatten(batches) ==
    IF batches = << >> THEN << >> ELSE Head(batches) \o Flatten(Tail(batches))

\* C35: the flushed batches, in order, hold every received message exactly
\* once and in arrival order (the ones not yet flushed are the pending
\* batch), no flushed batch is empty or longer than maxBatch, and once
\* mailbox has returned nothing received is left unflushed.
C35_MailboxBatching ==
    /\ \A i \in 1..Len(mbox.flushed) :
          Len(mbox.flushed[i]) >= 1 /\ Len(mbox.flushed[i]) <= maxBatch
    /\ mbox.pc = "select" => Flatten(mbox.flushed) \o mbox.batch = mbox.received
    /\ mbox.pc = "returned" => Flatten(mbox.flushed) = mbox.received

\* mailbox returned after a full batch was flushed and the cancellation
\* flushed a pending one
C35_Witness ==
    /\ mbox.pc = "returned"
    /\ mbox.cause = "done"
    /\ Len(mbox.received) = 4
    /\ \E i \in 1..Len(mbox.flushed) : Len(mbox.flushed[i]) = maxBatch

(***************************************************************************)
(* The heartbeat monitor (chapter06/mailbox-buffer.go, last program): the  *)
(* monitor sends on the unbuffered hb at every tick; main receives the     *)
(* heartbeats until the context is done and then returns.                  *)
(***************************************************************************)
MaxBeats == 8      \* ticks of the monitor's ticker in one behaviour

notMon == <<basicVars, lruVars, db, bk, wgx, pool, fan, mbox, sl, slLast>>

\* after `go monitor(ctx, hb)`
MonInit ==
    /\ mon = [cancelled |-> FALSE,
              monitor   |-> "select",
              main      |-> "select",
              tick      |-> FALSE,
              ticks     |-> 0,
              received  |-> 0,
              stopped   |-> FALSE]
    /\ murmur = None /\ hllHash = None /\ mhHash = None
    /\ bf = None /\ bfAdded = {} /\ bfLast = NoCall
    /\ cms = None /\ cmsTrue = None /\ cmsLast = NoCall /\ cmsOps = 0
    /\ la = None /\ laLog = << >> /\ laTop = None /\ laSimilar = None
    /\ writer = None /\ reader = None /\ fatal = FALSE
    /\ mh = None /\ mhLast = None
    /\ ds = None /\ dsLast = None
    /\ scan = None /\ hll = None /\ hllLast = None
    /\ ttl = None /\ ttlLast = None /\ lru = None /\ lruLast = None
    /\ db = None /\ bk = None /\ wgx = None /\ pool = None /\ fan = None
    /\ mbox = None /\ sl = None /\ slLast = None

\* the process lives until main returns
MonRunning == mon.main # "returned"

\* the 4 s deadline of the context passes
MonCancel ==
    /\ ~mon.cancelled
    /\ mon' = [mon EXCEPT !.cancelled = TRUE]
    /\ UNCHANGED notMon

\* the ticker puts a tick in ticker.C, which buffers one
MonTickerFire ==
    /\ MonRunning
    /\ ~mon.tick
    /\ mon.ticks < MaxBeats
    /\ mon' = [mon EXCEPT !.tick = TRUE, !.ticks = @ + 1]
    /\ UNCHANGED notMon

\* monitor: case <-ctx.Done(): fmt.Println("Monitor stopped"); return
MonitorDone ==
    /\ MonRunning
    /\ mon.monitor = "select"
    /\ mon.cancelled
    /\ mon' = [mon EXCEPT !.monitor = "returned", !.stopped = TRUE]
    /\ UNCHANGED notMon

\* monitor: case <-ticker.C: the goroutine goes on to `hb <- struct{}{}`
MonitorTick ==
    /\ MonRunning
    /\ mon.monitor = "select"
    /\ mon.tick
    /\ mon' = [mon EXCEPT !.tick = FALSE, !.monitor = "send"]
    /\ UNCHANGED notMon

\* monitor's `hb <- struct{}{}` meets main's `case <-hb`
MonHeartbeat ==
    /\ mon.monitor = "send"
    /\ mon.main = "select"
    /\ mon' = [mon EXCEPT !.monitor = "select", !.received = @ + 1]
    /\ UNCHANGED notMon

\* main: case <-ctx.Done(): fmt.Println("Shutting down main"); return
MonMainDone ==
    /\ mon.main = "select"
    /\ mon.cancelled
    /\ mon' = [mon EXCEPT !.main = "returned"]
    /\ UNCHANGED notMon

MonNext ==
    \/ MonCancel \/ MonTickerFire \/ MonitorDone \/ MonitorTick
    \/ MonHeartbeat \/ MonMainDone

SpecMon == MonInit /\ [][MonNext]_vars

\* a select whose case is ready again and again eventually takes it, and a
\* goroutine that can run is eventually scheduled
SpecMonFair ==
    /\ SpecMon
    /\ SF_vars(MonitorDone) /\ SF_vars(MonMainDone)
    /\ WF_vars(MonitorTick) /\ WF_vars(MonHeartbeat)

\* C36: once the context is cancelled the monitor goroutine eventually
\* returns, having printed "Monitor stopped".
C36_MonitorStops == mon.cancelled ~> (mon.monitor = "returned" /\ mon.stopped)

(***************************************************************************)
(* SkipList (part_001) with all its levels: nodes are numbered, Nil is the *)
(* nil pointer and HeadID the sentinel; level i of the code is level i + 1 *)
(* here, so forward[1] is the bottom chain.                                *)
(***************************************************************************)
MaxLevel == 3      \* largest level randomLevel returns (maxLevel of the model)

Nil    == 0
HeadID == 1

notSkip == <<basicVars, lruVars, db, bk, wgx, pool, fan, mbox, mon>>

SkipKeys   == 1..3
SkipValues == {"x", "y"}
NodeIDs    == 2..(Cardinality(SkipKeys) + 2)

\* func(a, b int) bool { return a < b }
lessInt(a, b) == a < b

\* NewSkipList(less)
NewSkipList ==
    [level |-> 1,
     nodes |-> [n \in {HeadID} |->
                   [key |-> 0, value |-> "", forward |-> [i \in 1..MaxLevel |-> Nil]]]]

\* for current.forward[i] != nil && sl.less(current.forward[i].key, key) {
\*     current = current.forward[i] }
RECURSIVE skipAdvance(_, _, _, _)
skipAdvance(nodes, current, i, key) ==
    IF nodes[current].forward[i] # Nil /\ lessInt(nodes[nodes[current].forward[i]].key, key)
    THEN skipAdvance(nodes, nodes[current].forward[i], i, key)
    ELSE current

\* for i := sl.level - 1; i >= 0; i-- { ...; update[i] = current }
RECURSIVE skipDescend(_, _, _, _, _)
skipDescend(s, key, i, current, update) ==
    IF i < 1 THEN [current |-> current, update |-> update]
    ELSE LET c == skipAdvance(s.nodes, current, i, key)
         IN  skipDescend(s, key, i - 1, c, [update EXCEPT ![i] = c])

\* the search loop from the head; current = current.forward[0]
skipLocate(s, key) ==
    LET d == skipDescend(s, key, s.level, HeadID, [i \in 1..MaxLevel |-> Nil])
    IN  [update |-> d.update, current |-> s.nodes[d.current].forward[1]]

\* current != nil && !sl.less(current.key, key) && !sl.less(key, current.key)
skipFound(s, current, key) ==
    /\ current # Nil
    /\ ~lessInt(s.nodes[current].key, key)
    /\ ~lessInt(key, s.nodes[current].key)

\* the node a `&Node{...}` allocates
NewNodeID(s) == CHOOSE n \in NodeIDs : n \notin DOMAIN s.nodes /\
                    \A m \in NodeIDs : m < n => m \in DOMAIN s.nodes

\* SkipList.Insert, with the level randomLevel() returned
skipInsert(s, key, value, level) ==
    LET loc == skipLocate(s, key)
    IN  IF skipFound(s, loc.current, key)
        THEN [s EXCEPT !.nodes[loc.current].value = value]
        ELSE LET update == [i \in 1..MaxLevel |->
                               IF i > s.level /\ i <= level THEN HeadID
                               ELSE loc.update[i]]
                 id == NewNodeID(s)
                 newNode == [key |-> key, value |-> value,
                             forward |-> [i \in 1..level |->
                                             s.nodes[update[i]].forward[i]]]
             IN  [level |-> IF level > s.level THEN level ELSE s.level,
                  nodes |-> [n \in DOMAIN s.nodes \cup {id} |->
                               IF n = id THEN newNode
                               ELSE [s.nodes[n] EXCEPT !.forward =
                                       [i \in DOMAIN @ |->
                                          IF i <= level /\ update[i] = n THEN id
                                          ELSE @[i]]]]]

\* SkipList.Search: the value and the success flag
skipSearch(s, key) ==
    LET loc == skipLocate(s, key)
    IN  IF skipFound(s, loc.current, key)
        THEN [value |-> s.nodes[loc.current].value, found |-> TRUE]
        ELSE [value |-> "", found |-> FALSE]

\* Delete that unlinks the node from the bottom chain only
skipUnlinkBottom(s, update, current) == {1}

\* for i := 0; i < sl.level; i++ { if update[i].forward[i] != current { break }; ... }
\* the levels at which the node is unlinked
skipUnlinkLevels(s, update, current) ==
    {i \in 1..s.level : \A j \in 1..i : s.nodes[update[j]].forward[j] = current}

\* for sl.level > 1 && sl.head.forward[sl.level-1] == nil { sl.level-- }
RECURSIVE skipShrink(_, _)
skipShrink(nodes, level) ==
    IF level > 1 /\ nodes[HeadID].forward[level] = Nil
    THEN skipShrink(nodes, level - 1)
    ELSE level

\* the nodes some pointer still reaches (the others are garbage)
Reachable(nodes) ==
    {HeadID} \cup {n \in DOMAIN nodes :
                     \E m \in DOMAIN nodes, i \in 1..MaxLevel :
                        i \in DOMAIN nodes[m].forward /\ nodes[m].forward[i] = n}

\* SkipList.Delete: the list after the call and the result
skipDelete(s, key) ==
    LET loc == skipLocate(s, key)
    IN  IF skipFound(s, loc.current, key)
        THEN LET levels   == skipUnlinkLevels(s, loc.update, loc.current)
                 unlinked == [n \in DOMAIN s.nodes |->
                                [s.nodes[n] EXCEPT !.forward =
                                   [i \in DOMAIN @ |->
                                      IF i \in levels /\ loc.update[i] = n
                                      THEN s.nodes[loc.current].forward[i]
                                      ELSE @[i]]]]
                 kept     == [n \in Reachable(unlinked) |-> unlinked[n]]
             IN  [s |-> [level |-> skipShrink(kept, s.level), nodes |-> kept],
                  ok |-> TRUE]
        ELSE [s |-> s, ok |-> FALSE]

SkipCall(op, key, value, ok, was, after) ==
    [op |-> op, key |-> key, value |-> value, ok |-> ok,
     was |-> was, after |-> after]

\* sl := NewSkipList(less); slLast.after is the map the calls so far describe,
\* slLast.was tells whether the key of the call was in it before the call
SkipInit ==
    /\ sl = NewSkipList
    /\ slLast = SkipCall("NewSkipList", 0, "", FALSE, FALSE, EmptyMap)
    /\ murmur = None /\ hllHash = None /\ mhHash = None
    /\ bf = None /\ bfAdded = {} /\ bfLast = NoCall
    /\ cms = None /\ cmsTrue = None /\ cmsLast = NoCall /\ cmsOps = 0
    /\ la = None /\ laLog = << >> /\ laTop = None /\ laSimilar = None
    /\ writer = None /\ reader = None /\ fatal = FALSE
    /\ mh = None /\ mhLast = None
    /\ ds = None /\ dsLast = None
    /\ scan = None /\ hll = None /\ hllLast = None
    /\ ttl = None /\ ttlLast = None /\ lru = None /\ lruLast = None
    /\ db = None /\ bk = None /\ wgx = None /\ pool = None /\ fan = None
    /\ mbox = None /\ mon = None

\* sl.Insert(key, value)
SkipInsert ==
    \E key \in SkipKeys, value \in SkipValues, level \in 1..MaxLevel :
        /\ sl' = skipInsert(sl, key, value, level)
        /\ slLast' = SkipCall("Insert", key, value, FALSE,
                              key \in DOMAIN slLast.after,
                              mapPut(slLast.after, key, value))
        /\ UNCHANGED notSkip

\* value, found := sl.Search(key)
SkipSearch ==
    \E key \in SkipKeys :
        LET r == skipSearch(sl, key)
        IN  /\ sl' = sl
            /\ slLast' = SkipCall("Search", key, r.value, r.found,
                                  key \in DOMAIN slLast.after, slLast.after)
            /\ UNCHANGED notSkip

\* ok := sl.Delete(key)
SkipDelete ==
    \E key \in SkipKeys :
        LET r == skipDelete(sl, key)
        IN  /\ sl' = r.s
            /\ slLast' = SkipCall("Delete", key, "", r.ok,
                                  key \in DOMAIN slLast.after,
                                  mapDelete(slLast.after, key))
            /\ UNCHANGED notSkip

SkipNext == SkipInsert \/ SkipSearch \/ SkipDelete

SpecSkip == SkipInit /\ [][SkipNext]_vars

\* the nodes of the level-i chain, from the head's successor on
RECURSIVE skipChain(_, _, _, _)
skipChain(nodes, current, i, fuel) ==
    IF current = Nil \/ fuel = 0 THEN << >>
    ELSE <<current>> \o skipChain(nodes, nodes[current].forward[i], i, fuel - 1)

LevelChain(s, i) ==
    skipChain(s.nodes, s.nodes[HeadID].forward[i], i, Cardinality(NodeIDs) + 1)

\* a is b with some elements left out (b without repetitions)
IsSubsequence(a, b) ==
    a = SelectSeq(b, LAMBDA x : \E j \in 1..Len(a) : a[j] = x)

\* C37: the bottom chain is strictly ordered by less (so it has at most one
\* node per key), every higher chain is a subsequence of it, Search(k)
\* returns the value of the last Insert of k when k was inserted and not
\* deleted since and reports not-found otherwise, and Delete(k) returns
\* true exactly when k was present.
C37_SkipListIsMap ==
    LET bottom == LevelChain(sl, 1)
    IN  /\ \A x \in 1..(Len(bottom) - 1) :
              lessInt(sl.nodes[bottom[x]].key, sl.nodes[bottom[x + 1]].key)
        /\ \A i \in 2..MaxLevel : IsSubsequence(LevelChain(sl, i), bottom)
        /\ \A i \in (sl.level + 1)..MaxLevel : LevelChain(sl, i) = << >>
        /\ slLast.op = "Search" =>
              /\ slLast.ok = (slLast.key \in DOMAIN slLast.after)
              /\ slLast.ok => slLast.value = slLast.after[slLast.key]
        /\ slLast.op = "Delete" => slLast.ok = slLast.was
        /\ \A k \in SkipKeys :
              /\ skipSearch(sl, k).found = (k \in DOMAIN slLast.after)
              /\ k \in DOMAIN slLast.after => skipSearch(sl, k).value = slLast.after[k]

\* a key of a three-level list was deleted and a Delete of an absent key
\* is the last call; a taller node still spans the gap
C37_Witness ==
    /\ slLast.op = "Delete"
    /\ ~slLast.ok
    /\ sl.level = 3
    /\ Len(LevelChain(sl, 1)) = 2
    /\ Len(LevelChain(sl, 2)) = 2
    /\ Len(LevelChain(sl, 3)) = 1

(***************************************************************************)
(* The dedup key of ProcessLogEntry, over records that agree in timestamp, *)
(* IP, user id, path and status and differ in session id and message.      *)
(***************************************************************************)
\* the second record differs from the first in session id and message
\* only, both are errors; the third is another user's request
DupEntries ==
    {LogEntry(30, "10.0.0.1", "u1", "s1", "/a", 500, "timeout"),
     LogEntry(30, "10.0.0.1", "u1", "s2", "/a", 500, "refused"),
     LogEntry(30, "10.0.0.1", "u2", "s1", "/a", 200, "ok")}

DupKeys   == {entryKey(e) : e \in DupEntries}
DupHashes == [DupKeys \X (0..(NewLogAnalyzer.deduper.k - 1)) -> KeyHashVals]

\* the analyzer after NewLogAnalyzer, under every hash of the dedup keys
DupInit ==
    /\ la = NewLogAnalyzer
    /\ murmur \in {kh @@ PathsApart : kh \in DupHashes}
    /\ hllHash = LAHllHash
    /\ mhHash = MhApart
    /\ laLog = << >>
    /\ laTop = NoTop
    /\ laSimilar = NoSimilar
    /\ bf = None /\ bfAdded = {} /\ bfLast = NoCall
    /\ cms = None /\ cmsTrue = None /\ cmsLast = NoCall /\ cmsOps = 0
    /\ writer = None /\ reader = None /\ fatal = FALSE
    /\ mh = None /\ mhLast = None
    /\ ds = None /\ dsLast = None
    /\ scan = None /\ hll = None /\ hllLast = None
    /\ ttl = None /\ ttlLast = None /\ lru = None /\ lruLast = None
    /\ db = None /\ bk = None /\ wgx = None /\ pool = None /\ fan = None
    /\ mbox = None /\ mon = None /\ sl = None /\ slLast = None

\* one call of ProcessLogEntry
ProcessDupEntry ==
    \E entry \in DupEntries :
        /\ Len(laLog) < MaxRecords
        /\ la' = processLogEntry(la, entry)
        /\ laLog' = Append(laLog,
               [entry   |-> entry,
                dropped |-> deduperTest(la.deduper, entryKey(entry)),
                est     |-> [p \in LAPaths |-> pcEstimate(la'.pathCounter, p)]])
        /\ UNCHANGED <<laTop, laSimilar, hashVars, notLA>>

DupNext == ProcessDupEntry

SpecDup == DupInit /\ [][DupNext]_vars

C39_SelfMatch ==
    (laSimilar.op = "FindSimilarErrors" /\ laSimilar.threshold <= 1000) =>
        \A id \in DOMAIN la.errorMessages :
            la.errorMessages[id].Message = laSimilar.errorMsg
                => la.errorMessages[id] \in laSimilar.result

\* the query at threshold 1.0 returned the first stored error although a
\* record was processed before it and another error was stored after it
C39_Witness ==
    /\ laSimilar.op = "FindSimilarErrors"
    /\ laSimilar.threshold = 1000
    /\ Len(laLog) = 3
    /\ laLog[1].entry.Status < 400
    /\ la.nextErrorID = 2
    /\ la.errorMessages[0].Message = laSimilar.errorMsg
    /\ la.errorMessages[1].Message # laSimilar.errorMsg
    /\ la.errorMessages[0] \in laSimilar.result

\* C40: DocumentSet.FindSimilar(docID, threshold) returns every other stored
\* document that shares a bucket with docID in at least one band and whose
\* signature similarity to docID is >= threshold.
C40_FindSimilarComplete ==
    (dsLast.op = "FindSimilar" /\ dsLast.docID \in DOMAIN ds.docs) =>
        \A id \in SharingBucket(ds.docs[dsLast.docID].Shingles) \ {dsLast.docID} :
            GeqFloat(Similarity(ds.minHash, ds.docs[dsLast.docID].Signature,
                                ds.docs[id].Signature),
                     dsLast.threshold)
                => \E n \in 1..Len(dsLast.similar) : dsLast.similar[n] = id

\* C1: every item ever passed to Add is reported present by Contains, in the
\* state right after the Add and in every later state (no false negatives),
\* and a Contains call on such an item returned true.
C1_NoFalseNegatives ==
    /\ \A x \in bfAdded : bfContains(bf, x)
    /\ (bfLast.op = "Contains" /\ bfLast.data \in bfAdded) => bfLast.result

\* an item was added, another item was added as well, and a later Contains
\* of the first one answered true
C1_Witness ==
    /\ bfLast.op = "Contains"
    /\ bfLast.data \in bfAdded /\ bfLast.result
    /\ Cardinality(bfAdded) >= 2
    /\ bf.k >= 2

====
